---- MODULE Spec2Model ----
(***************************************************************************)
(* Verification model of the signer's slot-store client                    *)
(* (stacks-signer/src/client/stackerdb.rs), of the push-event receiver     *)
(* (libsigner/src/events.rs), of the node RPC client                       *)
(* (stacks-signer/src/client/stacks_client.rs), of the Clarity VM's or and *)
(* and (blockstack-vm/src/functions/boolean.rs) and of the peg-in burn     *)
(* operation (stackslib/src/chainstate/burn/operations/peg_in.rs).         *)
(***************************************************************************)
EXTENDS Integers, Sequences, FiniteSets, TLC

VARIABLES
    \* ---- StackerDB client (stackerdb.rs) ----
    slot_versions,     \* StackerDB.slot_versions: msg id -> (slot id -> version), partial maps
    signer_slot_id,    \* StackerDB.signer_slot_id
    store,             \* the node's slot store: msg id -> slot id -> version held
    send_pc,           \* "idle" | "loop": position of send_message_with_retry
    msg_id,            \* message.msg_id() of the call in progress
    message_bytes,     \* message.serialize_to_vec() of the call in progress
    result,            \* value returned by the last finished call
    chunk_sent,        \* <<version>> of the chunk retry_with_exponential_backoff is sending
                       \* again after a lost answer, <<>> when it is sending none
    \* history of the calls, kept for the properties
    calls,             \* number of send_message_with_retry calls started
    start_versions,    \* slot_versions when the current call started
    start_stored,      \* version the store held at (msg_id, own slot) when the call started
    prev_put,          \* the put before last_put within the current call (slot, version,
                       \* data, and whether it was rejected as already existing)
    last_put,          \* the last chunk put within the current call, with its answer
    n_accepted,        \* chunks of the current call the store accepted
    n_exists,          \* "already exist" rejections answered to the current call
    n_faults,          \* answers of the node so far that gave no reason or were lost
    by_version_rule,   \* every answer of the current call came from the store's version rule
    accepted_versions, \* msg id -> sequence of versions the store accepted from this client
    \* ---- event receiver (events.rs) ----
    stop_signal,       \* StackerDBEventReceiver.stop_signal (shared with the signaler)
    http_server,       \* StackerDBEventReceiver.http_server: "None" or "Some"
    local_addr,        \* StackerDBEventReceiver.local_addr: "None" or the bound address
    out_channels,      \* StackerDBEventReceiver.out_channels: sequence of consumers
    requests,          \* requests the HTTP server holds, not yet returned by recv()
    rx_pc,             \* receiver thread: "setup" | "top" | "recv" | "request" | "forward" | "exit"
                       \* | "panicked"
    request,           \* the request next_event is handling
    next_event,        \* the event main_loop is about to forward
    stop_read,         \* what is_stopped returned when next_event handled that event's request
    sig_pc,            \* signaler thread: "none" | "ready" | "connect" | "done" | "panicked"
    channel_open,      \* consumer -> whether its receiving end still exists
    delivered,         \* consumer -> events received, each with the stop flag read at the send
    posted,            \* requests the node has posted so far
    bound_addr,        \* the address the HTTP server listens on, "None" when there is none
    bind_result,       \* outcome of bind: "none" | "Ok" | "panic"
    signaler,          \* the result of get_stop_signaler, with the signaler's fields
    handled,           \* the last return of next_event: request, flag read, result, response
    taken_events,      \* the events next_event returned Ok, in order
    n_recv,            \* requests recv() has returned so far
    fail_recv,         \* n_recv when forward_event failed, -1 while it has not
    send_i,            \* forward_event: the sends done for the event being forwarded
    \* ---- reads of the peers' transactions (stackerdb.rs, get_transactions) ----
    peer_slots,        \* the node's transactions slots: slot id -> version and chunk held
    n_writes,          \* writes of peers to their slots so far
    n_reads,           \* get_transactions calls so far
    rd_pc,             \* "idle" | "fetching": position of the get_transactions call
    rd_ids,            \* signer_ids of the last get_transactions call
    rd_chunks,         \* the chunks fetched for that call so far; once it has returned,
                       \* the chunks get_latest_chunks returned
    rd_versions,       \* the versions the slots held when their chunks were fetched
    rd_result,         \* what that call returned
    returned_versions, \* slot id -> versions of the chunks whose transactions were returned
    \* ---- node RPC client (stacks_client.rs) ----
    rpc_pc,            \* "idle" | "sending": position of the RPC operation in progress
    rpc_op,            \* the operation in progress
    rpc_result,        \* what the last finished operation returned
    rpc_calls,         \* operations started so far
    rpc_attempts,      \* requests the operation in progress has tried to send
    rpc_tries,         \* those of them that belong to the request being sent now
    rpc_first,         \* what the first request of an operation that sends two returned
    rpc_cycle,         \* the reward_cycle get_registered_signers_info was called with
    rpc_responses,     \* statuses of the responses the operation in progress has received
    \* ---- node RPC client: what the operations make of the node's answers ----
    client_call,       \* the last operation called, with the node's answers to its requests
    client_result,     \* what that operation returned
    last_round,        \* the last completed vote round of the cycle, <<>> when there is none
    coordinator_ids,   \* signer address -> the coordinator id that signer computed
    \* ---- StackerDB sessions (stackerdb.rs, new and the transactions reads) ----
    reward_cycle,      \* StackerDB.reward_cycle, -1 before new
    signers_message_stackerdb_sessions, \* StackerDB.signers_message_stackerdb_sessions
    next_transaction_session,           \* StackerDB.next_transaction_session
    session_reads,     \* the reads of transactions so far: operation and session read
    \* ---- Clarity VM boolean functions (blockstack-vm, functions/boolean.rs) ----
    vm_call,           \* the last special function called, with its argument expressions
    vm_result,         \* what it returned, and how many arguments it evaluated
    \* ---- burn operations (stackslib, chainstate/burn/operations/peg_in.rs) ----
    peg_tx,            \* the burnchain transaction PegInOp::from_tx was called with
    peg_result,        \* what from_tx returned
    peg_check          \* what check() returned on the operation from_tx gave, if called

dbvars == <<slot_versions, signer_slot_id, store, send_pc, msg_id, message_bytes, result,
            chunk_sent, calls, start_versions, start_stored, prev_put, last_put, n_accepted,
            n_exists, n_faults, by_version_rule, accepted_versions>>

evvars == <<stop_signal, http_server, local_addr, out_channels, requests, rx_pc, request,
            next_event, stop_read, sig_pc, channel_open, delivered, posted,
            bound_addr, bind_result, signaler, handled, taken_events, n_recv, fail_recv,
            send_i>>

rdvars == <<peer_slots, n_writes, n_reads, rd_pc, rd_ids, rd_chunks, rd_versions, rd_result,
            returned_versions>>

rpcvars == <<rpc_pc, rpc_op, rpc_result, rpc_calls, rpc_attempts, rpc_tries, rpc_first,
             rpc_cycle, rpc_responses>>

clvars == <<client_call, client_result, last_round, coordinator_ids>>

ssvars == <<reward_cycle, signers_message_stackerdb_sessions, next_transaction_session,
            session_reads>>

vmvars == <<vm_call, vm_result>>

pegvars == <<peg_tx, peg_result, peg_check>>

vars == <<dbvars, evvars, rdvars, rpcvars, clvars, ssvars, vmvars, pegvars>>

----------------------------------------------------------------------------
\* Bounds of the model

\* width of the slot version counter in the model (u32 in the code)
VersionBits == 3
\* message kinds the modelled signer sends: 0..MaxMsgId
MaxMsgId == 0
\* send_message_with_retry calls per behaviour
MaxCalls == 2
\* answers per behaviour that the node gives without a reason or that are lost on the
\* way to the client
MaxNodeFaults == 1
\* "already exist" rejections a call follows once the version has saturated
MaxSaturatedRetries == 2

\* version conflicts after which the long specification looks at a call: the "~100
\* version increments" of the failure-handling contract (the code has no such number)
IncrementLimit == 100

\* u32::MAX at the model's width
U32_MAX == 2^VersionBits - 1

\* stacks_common::consts::SIGNER_SLOTS_PER_USER
SIGNER_SLOTS_PER_USER == 13

MsgIds == 0..MaxMsgId
SlotIds == {0, 1}
Payloads == {"m1", "m2"}
\* versions the store may hold at the signer's slot when the client is created
InitStored == {0, 5, U32_MAX}
\* slot ids the modelled signer is configured with (SignerConfig.signer_slot_id)
SignerSlotIds == {1}
\* "already exist" rejections one call follows: enough to walk up to U32_MAX
ConflictCap == U32_MAX + MaxSaturatedRetries

----------------------------------------------------------------------------
\* Helpers

\* the empty HashMap
EmptyMap == [x \in {} |-> 0]

\* HashMap::insert
Insert(m, k, v) == [x \in (DOMAIN m) \cup {k} |-> IF x = k THEN v ELSE m[x]]

\* an addition that would wrap around at the width of the counter
SaturatingAdd1_Wrapping(v) == (v + 1) % (U32_MAX + 1)

\* u32::saturating_add(1)
SaturatingAdd1(v) == IF v >= U32_MAX THEN U32_MAX ELSE v + 1

\* the text the store gives when the version is not newer than the one it holds
ALREADY_EXISTS == "Data for this slot and version already exist"

\* StackerDBChunkAckData.reason: Option<String>, a text being a sequence of fragments
NoReason == [some |-> FALSE, text |-> <<>>]
SomeReason(t) == [some |-> TRUE, text |-> t]

\* str::contains(needle)
Contains(text, needle) == \E i \in 1..Len(text) : text[i] = needle

\* reasons of a rejection that is not a version conflict
OtherReasons == {<<"Bad signature">>, <<>>}
\* texts the store uses for a version conflict
ConflictReasons == {<<ALREADY_EXISTS>>, <<"rejected: ", ALREADY_EXISTS, " (stale)">>}

\* how an ack reads: "accepted", "conflict" (rejected as already existing),
\* "other" (rejected with another reason) or "none" (rejected without a reason)
AnswerKind(accepted, reason) ==
    IF accepted THEN "accepted"
    ELSE IF ~reason.some THEN "none"
    ELSE IF Contains(reason.text, ALREADY_EXISTS) THEN "conflict"
    ELSE "other"

NoPut == [slot_id |-> -1, version |-> -1, data |-> "", answer |-> "unanswered"]

----------------------------------------------------------------------------
\* StackerDB::new: every message kind has a session, the version cache is empty

\* StackerDB::new, signers_message_stackerdb_sessions: the msg ids that have a session
Sessions == 0..(SIGNER_SLOTS_PER_USER - 1)

\* the client of a signer that sends the kinds of `kinds`, the store holding one of the
\* versions of `stored` at the signer's slot
DBInitFor(kinds, stored) ==
    /\ slot_versions = EmptyMap
    /\ signer_slot_id \in SignerSlotIds
    /\ \E own \in [kinds -> stored] :
          store = [m \in kinds |-> [s \in SlotIds |->
                      IF s = signer_slot_id THEN own[m] ELSE 0]]
    /\ send_pc = "idle"
    /\ msg_id = 0
    /\ message_bytes = ""
    /\ result = "none"
    /\ chunk_sent = <<>>
    /\ calls = 0
    /\ start_versions = EmptyMap
    /\ start_stored = 0
    /\ prev_put = NoPut
    /\ last_put = NoPut
    /\ n_accepted = 0
    /\ n_exists = 0
    /\ n_faults = 0
    /\ by_version_rule = TRUE
    /\ accepted_versions = [m \in kinds |-> <<>>]

DBInitWith(stored) == DBInitFor(MsgIds, stored)

DBInit == DBInitWith(InitStored)

----------------------------------------------------------------------------
\* a lookup that would read the cache as the last version written
SlotVersion_LastPlusOne(versions, m, s) ==
    IF m \in DOMAIN versions
      THEN IF s \in DOMAIN versions[m] THEN SaturatingAdd1(versions[m][s]) ELSE 1
      ELSE 1

\* send_message_with_retry, lines 123-135: the version of the next chunk ...
SlotVersion(versions, m, s) ==
    IF m \in DOMAIN versions
      THEN IF s \in DOMAIN versions[m] THEN versions[m][s] ELSE 1
      ELSE 1

\* ... and the cache after that lookup (an absent entry is created holding 0)
VersionsAfterLookup(versions, m, s) ==
    IF m \in DOMAIN versions
      THEN IF s \in DOMAIN versions[m]
             THEN versions
             ELSE [versions EXCEPT ![m] = Insert(versions[m], s, 0)]
      ELSE Insert(versions, m, Insert(EmptyMap, s, 0))

\* an update that would write the new version into the maps of all the kinds
VersionsAfterAck_AllKinds(versions, m, s, slot_version) ==
    [k \in DOMAIN versions |-> Insert(versions[k], s, SaturatingAdd1(slot_version))]

\* lines 152-157 and 170-175: versions.insert(slot_id, slot_version.saturating_add(1))
VersionsAfterAck(versions, m, s, slot_version) ==
    [versions EXCEPT ![m] = Insert(versions[m], s, SaturatingAdd1(slot_version))]

\* line 137: StackerDBChunkData::new(slot_id, slot_version, message_bytes.clone())
Chunk(slot_id, slot_version, bytes) ==
    [slot_id |-> slot_id, version |-> slot_version, data |-> bytes]

\* lines 159-181: what the loop does with an ack: "Ok", "PutChunkRejected" or "retry"
AckOutcome(accepted, reason) ==
    IF accepted THEN "Ok"
    ELSE IF reason.some
           THEN IF Contains(reason.text, ALREADY_EXISTS) THEN "retry"
                ELSE "PutChunkRejected"
           ELSE "retry"

\* the node's store: a chunk is taken only if its version is above the one held
StoreAccepts(held, version) == version > held

\* lines 123-137 and 149-150: the version of the chunk of the iteration in progress. The
\* lookup and the chunk are made once per iteration; retry_with_exponential_backoff sends
\* that same chunk at every attempt
ChunkVersion ==
    IF chunk_sent # <<>> THEN chunk_sent[1]
    ELSE SlotVersion(slot_versions, msg_id, signer_slot_id)

\* the call in progress returns `res`
Return(res) ==
    /\ send_pc' = "idle"
    /\ result' = res

\* send_message_with_retry is called with a message of kind m serialized to `bytes`
SendMessage(m, bytes, max_calls) ==
    /\ send_pc = "idle"
    /\ calls < max_calls
    /\ send_pc' = "loop"
    /\ msg_id' = m
    /\ message_bytes' = bytes
    /\ calls' = calls + 1
    /\ start_versions' = slot_versions
    /\ start_stored' = store[m][signer_slot_id]
    /\ prev_put' = NoPut
    /\ last_put' = NoPut
    /\ n_accepted' = 0
    /\ n_exists' = 0
    /\ by_version_rule' = TRUE
    /\ result' = "none"
    /\ rd_pc = "idle"
    /\ UNCHANGED <<slot_versions, signer_slot_id, store, chunk_sent, n_faults,
                   accepted_versions>>
    /\ UNCHANGED <<evvars, rdvars, rpcvars, clvars, ssvars, vmvars, pegvars>>

\* one iteration of the loop in which chunk.sign fails (line 138)
SignFails ==
    /\ send_pc = "loop"
    /\ chunk_sent = <<>>
    /\ slot_versions' = VersionsAfterLookup(slot_versions, msg_id, signer_slot_id)
    /\ Return("FailToSign")
    /\ UNCHANGED <<signer_slot_id, store, msg_id, message_bytes, chunk_sent, calls,
                   start_versions, start_stored, prev_put, last_put, n_accepted, n_exists,
                   n_faults, by_version_rule, accepted_versions>>
    /\ UNCHANGED <<evvars, rdvars, rpcvars, clvars, ssvars, vmvars, pegvars>>

\* what an attempt of session.put_chunk(&chunk) (line 149) does to the node's store when
\* the chunk reaches the node (`reached`), whatever becomes of the node's answer: the
\* store takes the chunk by its version rule
StoreAfterAttempt(reached) ==
    LET slot_id == signer_slot_id
        slot_version == ChunkVersion
        taken == reached /\ StoreAccepts(store[msg_id][slot_id], slot_version)
    IN  /\ reached => n_faults < MaxNodeFaults
        /\ n_faults' = IF taken THEN n_faults + 1 ELSE n_faults
        /\ store' = IF taken THEN [store EXCEPT ![msg_id][slot_id] = slot_version]
                     ELSE store
        /\ n_accepted' = IF taken THEN n_accepted + 1 ELSE n_accepted
        /\ accepted_versions' = IF taken
                      THEN [accepted_versions EXCEPT ![msg_id] = Append(@, slot_version)]
                      ELSE accepted_versions

\* one attempt of retry_with_exponential_backoff (line 150, mod.rs 111-128) in which the
\* chunk reaches the node and is stored, and the node's answer is lost: put_chunk fails
\* with a transient error and the backoff sends the same chunk, with the version it was
\* built with, again
PutResponseLost ==
    /\ send_pc = "loop"
    /\ msg_id \in Sessions
    /\ StoreAccepts(store[msg_id][signer_slot_id], ChunkVersion)
    /\ slot_versions' = VersionsAfterLookup(slot_versions, msg_id, signer_slot_id)
    /\ chunk_sent' = <<ChunkVersion>>
    /\ StoreAfterAttempt(TRUE)
    /\ UNCHANGED <<signer_slot_id, send_pc, msg_id, message_bytes, result, calls,
                   start_versions, start_stored, prev_put, last_put, n_exists,
                   by_version_rule>>
    /\ UNCHANGED <<evvars, rdvars, rpcvars, clvars, ssvars, vmvars, pegvars>>

\* one iteration in which the put gets no answer before the retry deadline (line 150);
\* `reached` tells whether the last attempt reached the node all the same
PutTimesOut(reached) ==
    /\ send_pc = "loop"
    /\ msg_id \in Sessions
    /\ slot_versions' = VersionsAfterLookup(slot_versions, msg_id, signer_slot_id)
    /\ chunk_sent' = <<>>
    /\ StoreAfterAttempt(reached)
    /\ Return("RetryTimeout")
    /\ UNCHANGED <<signer_slot_id, msg_id, message_bytes, calls, start_versions,
                   start_stored, prev_put, last_put, n_exists,
                   by_version_rule>>
    /\ UNCHANGED <<evvars, rdvars, rpcvars, clvars, ssvars, vmvars, pegvars>>

\* one iteration in which the put of the chunk is answered by the ack (accepted, reason);
\* `rule` tells whether the answer is the one the store's version rule gives
PutAnswered(accepted, reason, rule, max_conflicts) ==
    LET slot_id == signer_slot_id
        slot_version == ChunkVersion
        looked == VersionsAfterLookup(slot_versions, msg_id, slot_id)
        chunk == Chunk(slot_id, slot_version, message_bytes)
        answer == AnswerKind(accepted, reason)
        outcome == AckOutcome(accepted, reason)
    IN  /\ send_pc = "loop"
        /\ msg_id \in Sessions
        /\ n_exists < max_conflicts
        /\ chunk_sent' = <<>>
        /\ prev_put' = last_put
        /\ last_put' = [slot_id |-> chunk.slot_id, version |-> chunk.version,
                        data |-> chunk.data, answer |-> answer]
        /\ n_accepted' = IF accepted THEN n_accepted + 1 ELSE n_accepted
        /\ n_exists' = IF answer = "conflict" THEN n_exists + 1 ELSE n_exists
        /\ by_version_rule' = (by_version_rule /\ rule)
        /\ store' = IF accepted
                      THEN [store EXCEPT ![msg_id][chunk.slot_id] = chunk.version]
                      ELSE store
        /\ accepted_versions' = IF accepted
                      THEN [accepted_versions EXCEPT ![msg_id] = Append(@, chunk.version)]
                      ELSE accepted_versions
        /\ IF msg_id \in DOMAIN looked
             THEN /\ slot_versions' = VersionsAfterAck(looked, msg_id, slot_id, slot_version)
                  /\ IF outcome = "retry"
                       THEN UNCHANGED <<send_pc, result>>
                       ELSE Return(outcome)
             ELSE /\ slot_versions' = looked
                  /\ Return("NotConnected")
        /\ UNCHANGED <<signer_slot_id, msg_id, message_bytes, calls, start_versions,
                       start_stored>>
        /\ UNCHANGED <<evvars, rdvars, rpcvars, clvars, ssvars, vmvars, pegvars>>

\* the store answers by its version rule: accepted, or rejected as already existing
PutAnsweredByStore(max_conflicts) ==
    /\ send_pc = "loop"
    /\ LET version == ChunkVersion
       IN  IF StoreAccepts(store[msg_id][signer_slot_id], version)
             THEN PutAnswered(TRUE, NoReason, TRUE, max_conflicts)
             ELSE \E text \in ConflictReasons :
                     PutAnswered(FALSE, SomeReason(text), TRUE, max_conflicts)
    /\ UNCHANGED n_faults

\* the node rejects the chunk for a reason that is not a version conflict
PutRejectedOther(max_conflicts) ==
    /\ \E text \in OtherReasons : PutAnswered(FALSE, SomeReason(text), FALSE, max_conflicts)
    /\ UNCHANGED n_faults

\* the node rejects the chunk and gives no reason
PutRejectedNoReason(max_conflicts) ==
    /\ n_faults < MaxNodeFaults
    /\ n_faults' = n_faults + 1
    /\ PutAnswered(FALSE, NoReason, FALSE, max_conflicts)

DBStep(max_calls, max_conflicts) ==
    \/ \E m \in MsgIds, bytes \in Payloads : SendMessage(m, bytes, max_calls)
    \/ SignFails
    \/ PutResponseLost
    \/ \E reached \in BOOLEAN : PutTimesOut(reached)
    \/ PutAnsweredByStore(max_conflicts)
    \/ PutRejectedOther(max_conflicts)
    \/ PutRejectedNoReason(max_conflicts)

\* the two kinds of message of a signer whose calls and reads are looked at together
FrameKinds == {0, 1}

\* send_message_with_retry is called with a message of one of the two kinds
SendMessageOfKind ==
    \E m \in FrameKinds, bytes \in Payloads : SendMessage(m, bytes, MaxCalls)

----------------------------------------------------------------------------
\* Event receiver (libsigner/src/events.rs)

\* requests the node posts per behaviour
MaxRequests == 2
\* consumers that can be registered
MaxConsumers == 2

Consumers == 1..MaxConsumers
\* addresses bind is given: a fixed port, and port 0 (the system picks the port)
Addrs == {"127.0.0.1:30000", "127.0.0.1:0"}

\* HttpServer::http(listener): the address the server listens on
ListenAddr(listener) == IF listener = "127.0.0.1:0" THEN "127.0.0.1:49152" ELSE listener
Events == {"ev1", "ev2"}
\* bodies of the requests: JSON of an event, text that is no such JSON, and bytes that
\* are no UTF-8
Bodies == {"{ev1}", "{ev2}", "not json", "not utf8"}

\* request.as_reader().read_to_string(&mut body), lines 227-230: "Err" when the body is
\* no UTF-8
read_to_string(body) == IF body = "not utf8" THEN "Err" ELSE body

\* serde_json::from_slice::<StackerDBChunksEvent>(body), "Err" when it fails
Deserialize(body) ==
    IF body = "{ev1}" THEN "ev1"
    ELSE IF body = "{ev2}" THEN "ev2"
    ELSE "Err"

\* what the node can post
NodeRequests ==
    { [method |-> "POST", url |-> "/stackerdb_chunks", body |-> b] : b \in Bodies }
      \cup { [method |-> "POST", url |-> "/new_block", body |-> "{ev1}"],
             [method |-> "GET", url |-> "/stackerdb_chunks", body |-> "{ev1}"] }

\* StackerDBStopSignaler::send, lines 171-176: the request that wakes the receiver up
ShutdownRequest ==
    [method |-> "POST", url |-> "/shutdown", body |-> "Yo. Shut this shit down!"]

NoRequest == [method |-> "", url |-> "", body |-> ""]

\* nothing handled yet: the request, the stop flag read, next_event's result, the response
\* given, the event main_loop keeps, where main_loop goes on, and whether the return
\* before this one was a Deserialize error
NoHandled == [request |-> NoRequest, stopped |-> FALSE, result |-> "none", response |-> "none",
              event |-> "None", next_pc |-> "none", after_undecodable |-> FALSE]

NoSignaler == [result |-> "none", stop_signal |-> "none", local_addr |-> "None"]

\* StackerDBEventReceiver::new
EvInit ==
    /\ stop_signal = FALSE
    /\ http_server = "None"
    /\ local_addr = "None"
    /\ out_channels = <<>>
    /\ requests = <<>>
    /\ rx_pc = "setup"
    /\ request = NoRequest
    /\ next_event = "None"
    /\ stop_read = FALSE
    /\ sig_pc = "none"
    /\ channel_open = [c \in Consumers |-> TRUE]
    /\ delivered = [c \in Consumers |-> <<>>]
    /\ posted = 0
    /\ bound_addr = "None"
    /\ bind_result = "none"
    /\ signaler = NoSignaler
    /\ handled = NoHandled
    /\ taken_events = <<>>
    /\ n_recv = 0
    /\ fail_recv = -1
    /\ send_i = 0

\* is_stopped
is_stopped == stop_signal

\* bind, lines 188-192, when the listener starts
Bind(addr) ==
    /\ rx_pc = "setup"
    /\ http_server = "None"
    /\ http_server' = "Some"
    /\ local_addr' = addr
    /\ bound_addr' = ListenAddr(addr)
    /\ bind_result' = "Ok"
    /\ UNCHANGED <<taken_events, n_recv, fail_recv, send_i, handled, signaler>>
    /\ UNCHANGED <<dbvars, rdvars, rpcvars, clvars, ssvars, vmvars, pegvars, stop_read, stop_signal, out_channels, requests, rx_pc, request, next_event, sig_pc,
                   channel_open, delivered, posted>>

\* bind, line 189, when the listener cannot be started: expect panics
BindFails(addr) ==
    /\ rx_pc = "setup"
    /\ http_server = "None"
    /\ rx_pc' = "panicked"
    /\ bind_result' = "panic"
    /\ UNCHANGED <<taken_events, n_recv, fail_recv, send_i, handled, bound_addr, signaler>>
    /\ UNCHANGED <<dbvars, rdvars, rpcvars, clvars, ssvars, vmvars, pegvars, stop_read, stop_signal, http_server, local_addr,
                   out_channels, requests, request, next_event, sig_pc, channel_open,
                   delivered, posted>>

\* add_consumer: the sending end of the consumer's channel is appended (the consumers
\* are numbered in the order they register)
AddConsumer(c) ==
    /\ rx_pc = "setup"
    /\ c = Len(out_channels) + 1
    /\ out_channels' = Append(out_channels, c)
    /\ UNCHANGED <<taken_events, n_recv, fail_recv, send_i, handled, bind_result, bound_addr, signaler>>
    /\ UNCHANGED <<dbvars, rdvars, rpcvars, clvars, ssvars, vmvars, pegvars, stop_read, stop_signal, http_server, local_addr, requests, rx_pc, request,
                   next_event, sig_pc, channel_open, delivered, posted>>

\* get_stop_signaler, lines 284-293: Ok(StackerDBStopSignaler::new(stop_signal.clone(),
\* local_addr)) on a receiver that has a local_addr, NotBound otherwise
StopSignalerFor(addr) ==
    IF addr # "None"
      THEN [result |-> "Ok", stop_signal |-> "receiver", local_addr |-> addr]
      ELSE [result |-> "NotBound", stop_signal |-> "none", local_addr |-> "None"]

GetStopSignaler ==
    /\ rx_pc = "setup"
    /\ sig_pc = "none"
    /\ signaler' = StopSignalerFor(local_addr)
    /\ sig_pc' = IF signaler'.result = "Ok" THEN "ready" ELSE "none"
    /\ UNCHANGED <<taken_events, n_recv, fail_recv, send_i, handled, bind_result, bound_addr>>
    /\ UNCHANGED <<dbvars, rdvars, rpcvars, clvars, ssvars, vmvars, pegvars, stop_read, stop_signal, http_server, local_addr, out_channels, requests, rx_pc,
                   request, next_event, channel_open, delivered, posted>>

\* the receiver's thread is started and enters main_loop
StartMainLoop ==
    /\ rx_pc = "setup"
    /\ rx_pc' = "top"
    /\ UNCHANGED <<taken_events, n_recv, fail_recv, send_i, handled, bind_result, bound_addr, signaler>>
    /\ UNCHANGED <<dbvars, rdvars, rpcvars, clvars, ssvars, vmvars, pegvars, stop_read, stop_signal, http_server, local_addr, out_channels, requests, request,
                   next_event, sig_pc, channel_open, delivered, posted>>

\* main_loop, lines 74-78: the stop check at the top of the loop, then next_event is
\* entered (with_server, lines 135-139, fails with NotBound when there is no server)
LoopTop ==
    /\ rx_pc = "top"
    /\ rx_pc' = IF is_stopped THEN "exit"
                ELSE IF http_server = "None" THEN "top"
                ELSE "recv"
    /\ handled' = IF ~is_stopped /\ http_server = "None"
                    THEN [request |-> NoRequest, stopped |-> FALSE, result |-> "NotBound",
                          response |-> "none", event |-> "None", next_pc |-> "top",
                          after_undecodable |-> FALSE]
                    ELSE handled
    /\ UNCHANGED <<taken_events, n_recv, fail_recv, send_i, bind_result, bound_addr, signaler>>
    /\ UNCHANGED <<dbvars, rdvars, rpcvars, clvars, ssvars, vmvars, pegvars, stop_read, stop_signal, http_server, local_addr, out_channels, requests, request,
                   next_event, sig_pc, channel_open, delivered, posted>>

\* next_event, line 199: http_server.recv() returns the next request; it blocks while
\* there is none
Recv ==
    /\ rx_pc = "recv"
    /\ requests # <<>>
    /\ request' = Head(requests)
    /\ requests' = Tail(requests)
    /\ rx_pc' = "request"
    /\ n_recv' = n_recv + 1
    /\ UNCHANGED <<taken_events, fail_recv, send_i, handled, bind_result, bound_addr, signaler>>
    /\ UNCHANGED <<dbvars, rdvars, rpcvars, clvars, ssvars, vmvars, pegvars, stop_read, stop_signal, http_server, local_addr, out_channels, next_event, sig_pc,
                   channel_open, delivered, posted>>

\* next_event, line 199: http_server.recv() fails, next_event returns the IO error and
\* main_loop warns and goes round again (lines 89-92)
RecvFails ==
    /\ rx_pc = "recv"
    /\ rx_pc' = "top"
    /\ handled' = [request |-> NoRequest, stopped |-> FALSE, result |-> "IO",
                   response |-> "none", event |-> "None", next_pc |-> "top",
                   after_undecodable |-> FALSE]
    /\ UNCHANGED <<taken_events, n_recv, fail_recv, send_i, bind_result, bound_addr, signaler>>
    /\ UNCHANGED <<dbvars, rdvars, rpcvars, clvars, ssvars, vmvars, pegvars, stop_read, stop_signal, http_server, local_addr, out_channels,
                   requests, request, next_event, sig_pc, channel_open, delivered, posted>>

\* a next_event that would not look at the stop flag after recv
NextEventResult_NoStopCheck(stopped, req, respond_ok) ==
    IF req.method # "POST" THEN "MalformedRequest"
    ELSE IF req.url # "/stackerdb_chunks"
      THEN IF respond_ok THEN "UnrecognizedEvent" ELSE "panic"
    ELSE IF read_to_string(req.body) = "Err" THEN "panic"
    ELSE IF Deserialize(req.body) = "Err" THEN "Deserialize"
    ELSE IF respond_ok THEN "Ok" ELSE "panic"

\* next_event, lines 201-242: "Terminated", "MalformedRequest", "UnrecognizedEvent",
\* "Deserialize" or "Ok", or "panic" at one of the expect calls (lines 223, 230, 239):
\* the response cannot be written (respond_ok is false), or the body is no UTF-8
NextEventResult(stopped, req, respond_ok) ==
    IF stopped THEN "Terminated"
    ELSE IF req.method # "POST" THEN "MalformedRequest"
    ELSE IF req.url # "/stackerdb_chunks"
      THEN IF respond_ok THEN "UnrecognizedEvent" ELSE "panic"
    ELSE IF read_to_string(req.body) = "Err" THEN "panic"
    ELSE IF Deserialize(req.body) = "Err" THEN "Deserialize"
    ELSE IF respond_ok THEN "Ok" ELSE "panic"

\* next_event, lines 201-242: what the request is answered: "200" where respond is
\* called and succeeds, "failed" where it is called and fails, "dropped" where
\* next_event ends without responding
NextEventResponse(stopped, req, respond_ok) ==
    IF stopped THEN "dropped"
    ELSE IF req.method # "POST" THEN "dropped"
    ELSE IF req.url # "/stackerdb_chunks" THEN IF respond_ok THEN "200" ELSE "failed"
    ELSE IF read_to_string(req.body) = "Err" THEN "dropped"
    ELSE IF Deserialize(req.body) = "Err" THEN "dropped"
    ELSE IF respond_ok THEN "200" ELSE "failed"

\* main_loop, lines 78-93: where the loop goes on after next_event: to forward_event,
\* out of the loop, or to the top of the loop; a panic ends the thread
AfterNextEvent(res) ==
    CASE res = "Ok" -> "forward"
      [] res = "Terminated" -> "exit"
      [] res = "panic" -> "panicked"
      [] OTHER -> "top"

\* next_event after recv, and main_loop's match on its result, lines 78-93; the server
\* taken by with_server (line 135) is lost when the closure panics
HandleRequest ==
    /\ rx_pc = "request"
    /\ \E respond_ok \in BOOLEAN :
        LET res == NextEventResult(is_stopped, request, respond_ok)
        IN  /\ rx_pc' = AfterNextEvent(res)
            /\ next_event' = IF res = "Ok" THEN Deserialize(request.body) ELSE "None"
            /\ taken_events' = IF res = "Ok"
                                  THEN Append(taken_events, Deserialize(request.body))
                                  ELSE taken_events
            /\ http_server' = IF res = "panic" THEN "None" ELSE http_server
            /\ handled' = [request |-> request, stopped |-> is_stopped, result |-> res,
                           response |-> NextEventResponse(is_stopped, request, respond_ok),
                           event |-> next_event', next_pc |-> rx_pc',
                           after_undecodable |-> handled.result = "Deserialize"]
    /\ request' = NoRequest
    /\ stop_read' = is_stopped
    /\ UNCHANGED <<n_recv, fail_recv, send_i, bind_result, bound_addr, signaler>>
    /\ UNCHANGED <<dbvars, rdvars, rpcvars, clvars, ssvars, vmvars, pegvars, stop_signal, local_addr, out_channels, requests, sig_pc,
                   channel_open, delivered, posted>>

\* forward_event, lines 261 and 268: the i-th send succeeds: there is an i-th channel
\* and its receiving end still exists
SendOk(chans, open, i) == i <= Len(chans) /\ open[chans[i]]

\* a forward_event that would return true after its first send
LastSend_FirstOnly(chans, i) == TRUE

\* forward_event, lines 259-274: the i-th send is the last one
LastSend(chans, i) == i >= Len(chans)

\* a main_loop that would go on whatever forward_event returns
AfterSend_IgnoresSendErrors(sent, last) ==
    IF last THEN "top" ELSE "forward"

\* forward_event and main_loop, lines 94-97: after a send: out of the loop when it failed
\* (or there was no channel), to the top of the loop after the last one, to the next
\* send otherwise
AfterSend(sent, last) ==
    IF ~sent THEN "exit"
    ELSE IF last THEN "top"
    ELSE "forward"

\* a main_loop whose consumers would find the newest event in front of the older ones
Forward_NewestFirst ==
    /\ rx_pc = "forward"
    /\ LET i == send_i + 1
           sent == SendOk(out_channels, channel_open, i)
       IN  /\ delivered' = IF sent
                             THEN [delivered EXCEPT ![out_channels[i]] =
                                      <<[event |-> next_event, stopped |-> stop_signal,
                                         taken_stopped |-> stop_read]>> \o @]
                             ELSE delivered
           /\ rx_pc' = AfterSend(sent, LastSend(out_channels, i))
           /\ fail_recv' = IF sent THEN fail_recv ELSE n_recv
           /\ send_i' = IF rx_pc' = "forward" THEN i ELSE 0
           /\ next_event' = IF rx_pc' = "forward" THEN next_event ELSE "None"
    /\ UNCHANGED <<taken_events, n_recv, handled, bind_result, bound_addr, signaler>>
    /\ UNCHANGED <<dbvars, rdvars, rpcvars, clvars, ssvars, vmvars, pegvars, stop_read, stop_signal, http_server, local_addr, out_channels, requests, request,
                   sig_pc, channel_open, posted>>

\* main_loop, lines 94-97, and forward_event, lines 254-275: one send of the event to the
\* next channel (the other threads run between two sends), or the return of
\* forward_event when there is no channel
Forward ==
    /\ rx_pc = "forward"
    /\ LET i == send_i + 1
           sent == SendOk(out_channels, channel_open, i)
       IN  /\ delivered' = IF sent
                             THEN [delivered EXCEPT ![out_channels[i]] =
                                      Append(@, [event |-> next_event,
                                                 stopped |-> stop_signal,
                                                 taken_stopped |-> stop_read])]
                             ELSE delivered
           /\ rx_pc' = AfterSend(sent, LastSend(out_channels, i))
           /\ fail_recv' = IF sent THEN fail_recv ELSE n_recv
           /\ send_i' = IF rx_pc' = "forward" THEN i ELSE 0
           /\ next_event' = IF rx_pc' = "forward" THEN next_event ELSE "None"
    /\ UNCHANGED <<taken_events, n_recv, handled, bind_result, bound_addr, signaler>>
    /\ UNCHANGED <<dbvars, rdvars, rpcvars, clvars, ssvars, vmvars, pegvars, stop_read, stop_signal, http_server, local_addr, out_channels, requests, request,
                   sig_pc, channel_open, posted>>

\* StackerDBStopSignaler::send, line 166: the flag is set
SignalerStore ==
    /\ sig_pc = "ready"
    /\ stop_signal' = IF signaler.stop_signal = "receiver" THEN TRUE ELSE stop_signal
    /\ sig_pc' = "connect"
    /\ UNCHANGED <<taken_events, n_recv, fail_recv, send_i, handled, bind_result, bound_addr, signaler>>
    /\ UNCHANGED <<dbvars, rdvars, rpcvars, clvars, ssvars, vmvars, pegvars, stop_read, http_server, local_addr, out_channels, requests, rx_pc, request,
                   next_event, channel_open, delivered, posted>>

\* send, lines 169-178: the connection to the signaler's local_addr is made, a server
\* listening there, and the request written
SignalerConnects ==
    /\ sig_pc = "connect"
    /\ signaler.local_addr = bound_addr
    /\ http_server = "Some"
    /\ requests' = Append(requests, ShutdownRequest)
    /\ sig_pc' = "done"
    /\ UNCHANGED <<taken_events, n_recv, fail_recv, send_i, handled, bind_result, bound_addr, signaler>>
    /\ UNCHANGED <<dbvars, rdvars, rpcvars, clvars, ssvars, vmvars, pegvars, stop_read, stop_signal, http_server, local_addr, out_channels, rx_pc, request,
                   next_event, channel_open, delivered, posted>>

\* send, line 169: TcpStream::connect fails, send returns without a request
SignalerConnectFails ==
    /\ sig_pc = "connect"
    /\ sig_pc' = "done"
    /\ UNCHANGED <<taken_events, n_recv, fail_recv, send_i, handled, bind_result, bound_addr, signaler>>
    /\ UNCHANGED <<dbvars, rdvars, rpcvars, clvars, ssvars, vmvars, pegvars, stop_read, stop_signal, http_server, local_addr, out_channels, requests, rx_pc,
                   request, next_event, channel_open, delivered, posted>>

\* send, line 177: the connection is made but write_all fails, unwrap panics
SignalerWriteFails ==
    /\ sig_pc = "connect"
    /\ signaler.local_addr = bound_addr
    /\ http_server = "Some"
    /\ sig_pc' = "panicked"
    /\ UNCHANGED <<taken_events, n_recv, fail_recv, send_i, handled, bind_result, bound_addr, signaler>>
    /\ UNCHANGED <<dbvars, rdvars, rpcvars, clvars, ssvars, vmvars, pegvars, stop_read, stop_signal, http_server, local_addr, out_channels, requests, rx_pc,
                   request, next_event, channel_open, delivered, posted>>

\* the node posts a request to the bound address
NodePosts(req) ==
    /\ http_server = "Some"
    /\ posted < MaxRequests
    /\ posted' = posted + 1
    /\ requests' = Append(requests, req)
    /\ UNCHANGED <<taken_events, n_recv, fail_recv, send_i, handled, bind_result, bound_addr, signaler>>
    /\ UNCHANGED <<dbvars, rdvars, rpcvars, clvars, ssvars, vmvars, pegvars, stop_read, stop_signal, http_server, local_addr, out_channels, rx_pc, request,
                   next_event, sig_pc, channel_open, delivered>>

\* a consumer drops the receiving end of its channel
ConsumerDrops(c) ==
    /\ channel_open[c]
    /\ \E i \in 1..Len(out_channels) : out_channels[i] = c
    /\ channel_open' = [channel_open EXCEPT ![c] = FALSE]
    /\ UNCHANGED <<taken_events, n_recv, fail_recv, send_i, handled, bind_result, bound_addr, signaler>>
    /\ UNCHANGED <<dbvars, rdvars, rpcvars, clvars, ssvars, vmvars, pegvars, stop_read, stop_signal, http_server, local_addr, out_channels, requests, rx_pc,
                   request, next_event, sig_pc, delivered, posted>>

\* the steps the receiver's thread takes when it is scheduled, once main_loop runs (a
\* failure of recv is an event of the socket, which scheduling does not bring about)
ReceiverStep == LoopTop \/ Recv \/ HandleRequest \/ Forward

\* the steps of the thread that calls send
SignalerStep == SignalerStore \/ SignalerConnects \/ SignalerConnectFails \/ SignalerWriteFails

EvStep ==
    \/ \E addr \in Addrs : Bind(addr)
    \/ \E addr \in Addrs : BindFails(addr)
    \/ \E c \in Consumers : AddConsumer(c)
    \/ GetStopSignaler
    \/ StartMainLoop
    \/ LoopTop
    \/ Recv
    \/ RecvFails
    \/ HandleRequest
    \/ Forward
    \/ SignalerStore
    \/ SignalerConnects
    \/ SignalerConnectFails
    \/ SignalerWriteFails
    \/ \E req \in NodeRequests : NodePosts(req)
    \/ \E c \in Consumers : ConsumerDrops(c)

----------------------------------------------------------------------------
\* Reads of the peers' transactions (stackerdb.rs, get_transactions)

\* writes of peers to their slots per behaviour
MaxPeerWrites == 2
\* get_transactions calls per behaviour
MaxReads == 2

\* the slots of the peers (signer ids)
PeerSlots == {0, 1}
Transactions == {"tx1", "tx2"}

\* what read_next::<SignerMessage> makes of a chunk's data: an error, or a message
NoMessage == [ok |-> FALSE, variant |-> "", txs |-> <<>>]
TransactionsMessage(txs) == [ok |-> TRUE, variant |-> "Transactions", txs |-> txs]
OtherMessage == [ok |-> TRUE, variant |-> "BlockResponse", txs |-> <<>>]

\* Option<Vec<u8>>: None, or Some(data), the data given by whether it is empty and by the
\* message it holds
NoChunk == [some |-> FALSE, is_empty |-> TRUE, message |-> NoMessage]
SomeChunk(is_empty, message) == [some |-> TRUE, is_empty |-> is_empty, message |-> message]

\* data a peer may have in its slot: nothing, bytes that are no message, a message that
\* is not Transactions, and Transactions messages
ChunkData ==
    { SomeChunk(TRUE, NoMessage), SomeChunk(FALSE, NoMessage), SomeChunk(FALSE, OtherMessage),
      SomeChunk(FALSE, TransactionsMessage(<<>>)),
      SomeChunk(FALSE, TransactionsMessage(<<"tx1">>)),
      SomeChunk(FALSE, TransactionsMessage(<<"tx2", "tx1">>)) }

\* signer_ids of a call: one id (get_current_transactions_with_retry) or several
\* (get_next_transactions_with_retry)
SignerIdLists == { <<a>> : a \in PeerSlots } \cup { <<a, b>> : a, b \in PeerSlots }

NoRead == [kind |-> "none", transactions |-> <<>>]

RdInit ==
    /\ peer_slots = [s \in PeerSlots |-> [version |-> 0, chunk |-> NoChunk]]
    /\ n_writes = 0
    /\ n_reads = 0
    /\ rd_pc = "idle"
    /\ rd_ids = <<>>
    /\ rd_chunks = <<>>
    /\ rd_versions = <<>>
    /\ rd_result = NoRead
    /\ returned_versions = [s \in PeerSlots |-> <<>>]

\* line 203: read_next::<SignerMessage, _>(&mut &data[..])
read_next(data) == data.message

\* a loop that would give up at the first chunk that holds no Transactions message
RECURSIVE CollectTransactions_StopAtBadChunk(_, _, _, _)
CollectTransactions_StopAtBadChunk(signer_ids, chunk_ack, i, transactions) ==
    IF i > Len(chunk_ack) THEN [kind |-> "Ok", transactions |-> transactions]
    ELSE IF i > Len(signer_ids) THEN [kind |-> "panic", transactions |-> <<>>]
    ELSE LET chunk == chunk_ack[i]
         IN  IF ~chunk.some
               THEN CollectTransactions_StopAtBadChunk(signer_ids, chunk_ack, i + 1, transactions)
             ELSE IF ~read_next(chunk).ok
               THEN [kind |-> "Ok", transactions |-> transactions]
             ELSE IF read_next(chunk).variant # "Transactions"
               THEN [kind |-> "Ok", transactions |-> transactions]
             ELSE CollectTransactions_StopAtBadChunk(signer_ids, chunk_ack, i + 1,
                                      transactions \o read_next(chunk).txs)

\* get_transactions, lines 195-225: the loop over the chunks of the answer, from the i-th
\* on, `transactions` holding what was collected before
RECURSIVE CollectTransactions(_, _, _, _)
CollectTransactions(signer_ids, chunk_ack, i, transactions) ==
    IF i > Len(chunk_ack) THEN [kind |-> "Ok", transactions |-> transactions]
    ELSE IF i > Len(signer_ids) THEN [kind |-> "panic", transactions |-> <<>>]
    ELSE LET chunk == chunk_ack[i]
         IN  IF ~chunk.some
               THEN CollectTransactions(signer_ids, chunk_ack, i + 1, transactions)
             ELSE IF ~read_next(chunk).ok
               THEN CollectTransactions(signer_ids, chunk_ack, i + 1, transactions)
             ELSE IF read_next(chunk).variant # "Transactions"
               THEN CollectTransactions(signer_ids, chunk_ack, i + 1, transactions)
             ELSE CollectTransactions(signer_ids, chunk_ack, i + 1,
                                      transactions \o read_next(chunk).txs)

\* the answers get_latest_chunks may give once every slot was fetched: the chunks
\* fetched, or one chunk fewer, or one more
AnswerShapes == {"latest", "short", "long"}

\* what becomes of an exchange with the node: it is answered (the last one of a call
\* giving get_latest_chunks one of its shapes), or it gets no answer before the retry
\* deadline
NodeAnswers == AnswerShapes \cup {"none"}

\* get_latest_chunks(signer_ids), line 191: what it returns for the chunks fetched
ChunkAnswer(fetched, shape) ==
    CASE shape = "latest" -> fetched
      [] shape = "short" -> SubSeq(fetched, 1, Len(fetched) - 1)
      [] shape = "long" -> Append(fetched, NoChunk)

\* the positions of the answer whose chunk gave transactions to the result
ContentPositions(signer_ids, chunk_ack) ==
    { j \in 1..Len(chunk_ack) :
          /\ j <= Len(signer_ids)
          /\ chunk_ack[j].some
          /\ read_next(chunk_ack[j]).ok
          /\ read_next(chunk_ack[j]).variant = "Transactions"
          /\ read_next(chunk_ack[j]).txs # <<>> }

\* the slots of the call whose chunk gave transactions to the result
ContentSlots(signer_ids, chunk_ack) ==
    { signer_ids[j] : j \in ContentPositions(signer_ids, chunk_ack) }

\* the version of the chunk of slot s that the result holds (the one fetched last)
ContentVersion(signer_ids, chunk_ack, versions, s) ==
    LET at == { j \in ContentPositions(signer_ids, chunk_ack) : signer_ids[j] = s }
    IN  versions[CHOOSE j \in at : \A k \in at : k <= j]

\* get_latest_chunks fetches the slots asked for one after the other, one exchange with
\* the node per slot id, in the order of the ids (the test of lines 279-321 serves one
\* call for two ids through two successive connections): the exchange for the next slot
\* of signer_ids, `chunks` and `versions` being what was fetched before. The node gives
\* the chunk it holds at that moment. After the last exchange get_transactions goes
\* through the chunks (lines 195-225) and returns; an exchange that gets no answer
\* before the retry deadline ends the call with RetryTimeout (line 194)
get_latest_chunks(signer_ids, chunks, versions, answer) ==
    LET i == Len(chunks) + 1
        fetched == Append(chunks, peer_slots[signer_ids[i]].chunk)
        fetched_versions == Append(versions, peer_slots[signer_ids[i]].version)
        chunk_ack == ChunkAnswer(fetched, answer)
        res == CollectTransactions(signer_ids, chunk_ack, 1, <<>>)
    IN  IF answer = "none"
        THEN /\ rd_pc' = "idle"
             /\ rd_chunks' = <<>>
             /\ rd_versions' = <<>>
             /\ rd_result' = [kind |-> "RetryTimeout", transactions |-> <<>>]
             /\ UNCHANGED returned_versions
        ELSE IF i < Len(signer_ids)
        THEN /\ answer = "latest"
             /\ rd_pc' = "fetching"
             /\ rd_chunks' = fetched
             /\ rd_versions' = fetched_versions
             /\ rd_result' = NoRead
             /\ UNCHANGED returned_versions
        ELSE /\ rd_pc' = "idle"
             /\ rd_chunks' = chunk_ack
             /\ rd_versions' = fetched_versions
             /\ rd_result' = res
             /\ returned_versions' =
                  [s \in PeerSlots |->
                      IF res.kind = "Ok" /\ s \in ContentSlots(signer_ids, chunk_ack)
                        THEN Append(returned_versions[s],
                                    ContentVersion(signer_ids, chunk_ack,
                                                   fetched_versions, s))
                        ELSE returned_versions[s]]

\* get_transactions(session, signer_ids), lines 185-226, is called and the exchange for
\* the first slot is over: what it does to the variables of the reads. A call for one
\* slot returns here
get_transactions(signer_ids, answer) ==
    /\ rd_pc = "idle"
    /\ n_reads < MaxReads
    /\ n_reads' = n_reads + 1
    /\ rd_ids' = signer_ids
    /\ get_latest_chunks(signer_ids, <<>>, <<>>, answer)
    /\ UNCHANGED <<peer_slots, n_writes>>

\* the call in progress has the exchange for its next slot; after the last one it returns
get_transactions_NextSlot(answer) ==
    /\ rd_pc = "fetching"
    /\ get_latest_chunks(rd_ids, rd_chunks, rd_versions, answer)
    /\ UNCHANGED <<peer_slots, n_writes, n_reads, rd_ids>>

\* get_transactions is called on the session of the node's transactions slots
GetTransactions(signer_ids, answer) ==
    /\ get_transactions(signer_ids, answer)
    /\ UNCHANGED <<dbvars, evvars, rpcvars, clvars, ssvars, vmvars, pegvars>>

\* that call goes on with its next slot
GetTransactionsNextSlot(answer) ==
    /\ get_transactions_NextSlot(answer)
    /\ UNCHANGED <<dbvars, evvars, rpcvars, clvars, ssvars, vmvars, pegvars>>

\* a peer writes its slot: the node takes the chunk under the next version
PeerWrites(s, data) ==
    /\ n_writes < MaxPeerWrites
    /\ n_writes' = n_writes + 1
    /\ peer_slots' = [peer_slots EXCEPT ![s] = [version |-> @.version + 1, chunk |-> data]]
    /\ UNCHANGED <<n_reads, rd_pc, rd_ids, rd_chunks, rd_versions, rd_result,
                   returned_versions>>
    /\ UNCHANGED <<dbvars, evvars, rpcvars, clvars, ssvars, vmvars, pegvars>>

\* get_current_transactions_with_retry or get_next_transactions_with_retry is called on
\* the client between two calls of send_message_with_retry (both take &mut self), and
\* runs to its return before the next call
ReadBetweenCalls ==
    /\ send_pc = "idle"
    /\ \/ \E ids \in SignerIdLists, answer \in {"latest", "none"} :
                GetTransactions(ids, answer)
       \/ \E answer \in {"latest", "none"} : GetTransactionsNextSlot(answer)

RdStep ==
    \/ \E ids \in SignerIdLists, answer \in NodeAnswers : GetTransactions(ids, answer)
    \/ \E answer \in NodeAnswers : GetTransactionsNextSlot(answer)
    \/ \E s \in PeerSlots, data \in ChunkData : PeerWrites(s, data)

----------------------------------------------------------------------------
\* Node RPC client (stacks_client.rs)

\* Option<T>: None is <<>>, Some(x) is <<x>>
None == <<>>
Some(x) == <<x>>
unwrap_or(opt, default) == IF opt = None THEN default ELSE opt[1]

\* Result<T, ClientError>, and the panic that returns nothing
Ok(v) == [kind |-> "Ok", value |-> v, error |-> "", detail |-> ""]
Err(e, d) == [kind |-> "Err", value |-> None, error |-> e, detail |-> d]
Panicked(d) == [kind |-> "panic", value |-> None, error |-> "", detail |-> d]
\* the process was ended (std::alloc::handle_alloc_error): the call does not return
Aborted(d) == [kind |-> "abort", value |-> None, error |-> "", detail |-> d]
NoResult == [kind |-> "none", value |-> None, error |-> "", detail |-> ""]

\* StacksClient::new: the client is stateless, no operation is in progress
RpcInit ==
    /\ rpc_pc = "idle"
    /\ rpc_op = "none"
    /\ rpc_result = NoResult
    /\ rpc_calls = 0
    /\ rpc_attempts = 0
    /\ rpc_tries = 0
    /\ rpc_first = NoResult
    /\ rpc_cycle = 0
    /\ rpc_responses = <<>>

\* operations started per behaviour
MaxRpcCalls == 2
\* requests an operation tries to send before the overall deadline of the backoff is over
MaxAttempts == 3

\* the functions that send a request themselves, inside retry_with_exponential_backoff ...
RetriedRequests == {"submit_block_for_validation", "get_peer_info", "get_reward_set",
                    "get_pox_data", "get_account_entry", "submit_transaction"}
\* ... and outside of it
PlainRequests == {"read_only_contract_call"}

\* the operations that call one of them and hand its error on with `?`
SendsWith ==
    [op \in RetriedRequests \cup PlainRequests |-> op] @@
    ( "get_account_nonce" :> "get_account_entry" @@
      "get_current_reward_cycle" :> "get_pox_data" @@
      "get_burn_block_height" :> "get_peer_info" @@
      "get_stackerdb_signer_slots" :> "read_only_contract_call" @@
      "get_vote_for_aggregate_public_key" :> "read_only_contract_call" @@
      "get_approved_aggregate_key" :> "read_only_contract_call" @@
      "get_last_round" :> "read_only_contract_call" )

RpcOps == DOMAIN SendsWith

\* statuses the node answers with
Statuses == {200, 400, 404, 500}

\* reqwest::StatusCode::is_success
is_success(status) == 200 <= status /\ status <= 299

\* the request is sent again
Retry == [kind |-> "retry", value |-> None, error |-> "", detail |-> ""]

\* what an operation does when send() fails (the node cannot be reached): inside
\* retry_with_exponential_backoff the error is transient, the request is sent again until
\* the deadline and then the operation returns RetryTimeout; outside of it `?` returns
\* the reqwest error at once
OnSendError(op, deadline) ==
    IF SendsWith[op] \in RetriedRequests
      THEN IF deadline THEN Err("RetryTimeout", "") ELSE Retry
      ELSE Err("ReqwestError", "send")

----------------------------------------------------------------------------
\* Node RPC client (stacks_client.rs): what the operations make of the node's answers

\* width in bits of the burn heights and phase lengths (u64 in the code)
HeightBits == 2
\* longest list of epochs of a pox response
MaxEpochs == 2
\* signers of the largest reward set
MaxSigners == 2
\* largest weight of a reward-set entry
MaxWeight == 2
\* largest vote round
MaxRound == 3

U64_MAX == 2^HeightBits - 1

Heights == 0..U64_MAX

NoCall == [op |-> "none"]

ClInit ==
    /\ client_call = NoCall
    /\ client_result = NoResult
    /\ last_round = None
    /\ coordinator_ids = EmptyMap

\* a request of a retried operation that the node did not answer in time
RequestErrors == {Err("RetryTimeout", "")}

\* ---- Clarity values ----

\* a Clarity value: its type; the two 64-bit halves of a uint (hi, n), the length of a
\* buffer (n), and n = 1 for true, for an (ok ..) and for a contract principal; the
\* address of a principal or the content of a buffer (text); the field names of a tuple
\* (names); the values inside an optional, a response, a list or a tuple (items)
ClarityValue(type, hi, n, text, names, items) ==
    [type |-> type, hi |-> hi, n |-> n, text |-> text, names |-> names, items |-> items]

UInt(hi, lo) == ClarityValue("UInt", hi, lo, "", <<>>, <<>>)
Bool(b) == ClarityValue("Bool", 0, IF b THEN 1 ELSE 0, "", <<>>, <<>>)
none == ClarityValue("Optional", 0, 0, "", <<>>, <<>>)
some(v) == ClarityValue("Optional", 0, 0, "", <<>>, <<v>>)
okay(v) == ClarityValue("Response", 0, 1, "", <<>>, <<v>>)
error(v) == ClarityValue("Response", 0, 0, "", <<>>, <<v>>)
list(items) == ClarityValue("List", 0, 0, "", <<>>, items)
Tuple(names, items) == ClarityValue("Tuple", 0, 0, "", names, items)
StandardPrincipal(signing_key) == ClarityValue("Principal", 0, 0, signing_key, <<>>, <<>>)
ContractPrincipal(signing_key) == ClarityValue("Principal", 0, 1, signing_key, <<>>, <<>>)
Buff(len, content) == ClarityValue("Buff", 0, len, content, <<>>, <<>>)

HexDigits == <<"0", "1", "2", "3", "4", "5", "6", "7",
               "8", "9", "a", "b", "c", "d", "e", "f">>

HexByte(b) == HexDigits[(b \div 16) + 1] \o HexDigits[(b % 16) + 1]

RECURSIVE Repeat(_, _)
Repeat(s, n) == IF n = 0 THEN "" ELSE s \o Repeat(s, n - 1)

\* a big-endian integer of that many bytes, its value below 256
HexInt(v, bytes) == Repeat("00", bytes - 1) \o HexByte(v)

\* the names used in the values, as a length byte and ASCII
AsciiHex(name) ==
    CASE name = "signer" -> "06" \o "7369676e6572"
      [] name = "num-slots" -> "09" \o "6e756d2d736c6f7473"
      [] name = "signers" -> "07" \o "7369676e657273"

\* version byte and hash160 of the address of a signing key (the addresses of the test
\* parse_valid_signer_slots_should_succeed)
AddressHex(signing_key) ==
    CASE signing_key = "key1" -> "1a" \o "8195196a9a7cf9c37cb13e1ed69a7bc047a84e05"
      [] signing_key = "key2" -> "1a" \o "6505471146dcf722f0580911183f28bef30a8a89"

\* the bytes of a buffer: a compressed point of the curve (the generator), or zeros
BuffHex(len, content) ==
    IF content = "point"
    THEN "02" \o "79be667ef9dcbbac55a06295ce870b07029bfcdb2dce28d959f2815b16f81798"
    ELSE Repeat("00", len)

RECURSIVE serialize(_), SerializeItems(_, _, _)

\* the items from position i on, each field of a tuple after its name
SerializeItems(names, items, i) ==
    IF i > Len(items) THEN ""
    ELSE (IF names = <<>> THEN "" ELSE AsciiHex(names[i]))
         \o serialize(items[i]) \o SerializeItems(names, items, i + 1)

\* the consensus serialization of a value, in hex: a type byte and the content
serialize(v) ==
    CASE v.type = "UInt" -> "01" \o HexInt(v.hi, 8) \o HexInt(v.n, 8)
      [] v.type = "Buff" -> "02" \o HexInt(v.n, 4) \o BuffHex(v.n, v.text)
      [] v.type = "Bool" -> IF v.n = 1 THEN "03" ELSE "04"
      [] v.type = "Principal" ->
            IF v.n = 0 THEN "05" \o AddressHex(v.text)
            ELSE "06" \o AddressHex(v.text) \o AsciiHex("signers")
      [] v.type = "Response" ->
            (IF v.n = 1 THEN "07" ELSE "08") \o serialize(v.items[1])
      [] v.type = "Optional" ->
            IF v.items = <<>> THEN "09" ELSE "0a" \o serialize(v.items[1])
      [] v.type = "List" ->
            "0b" \o HexInt(Len(v.items), 4) \o SerializeItems(<<>>, v.items, 1)
      [] v.type = "Tuple" ->
            "0c" \o HexInt(Len(v.items), 4) \o SerializeItems(v.names, v.items, 1)

Standard(address) == [kind |-> "Standard", address |-> address]
Contract(address) == [kind |-> "Contract", address |-> address]

\* the tuple of a signer in the list the signers contract answers
SlotTuple(principal) ==
    Tuple(<<"num-slots", "signer">>, <<UInt(0, SIGNER_SLOTS_PER_USER), principal>>)

\* the lists of the signers contract, here with standard and contract principals
SlotLists ==
    LET a1 == SlotTuple(StandardPrincipal("key1"))
        a2 == SlotTuple(StandardPrincipal("key2"))
        c  == SlotTuple(ContractPrincipal("key1"))
    IN  {<<>>, <<a1>>, <<a2>>, <<a1, a2>>, <<a2, a1>>, <<c>>, <<a1, c>>}

\* the Clarity values the signers contract answers to stackerdb-get-signer-slots-page:
\* an (ok (list ...)) of tuples, or an (err ...)
SlotValues == {okay(list(l)) : l \in SlotLists} \cup {error(UInt(0, 1))}

\* lists of slots that are not well formed: an item that is no tuple, a tuple without
\* signer, a signer that is no principal, a num-slots that is no uint
MalformedSlotValues ==
    {okay(list(<<Bool(TRUE)>>)),
     okay(list(<<Tuple(<<"num-slots">>, <<UInt(0, SIGNER_SLOTS_PER_USER)>>)>>)),
     okay(list(<<Tuple(<<"num-slots", "signer">>,
                       <<UInt(0, SIGNER_SLOTS_PER_USER), Bool(TRUE)>>)>>)),
     okay(list(<<Tuple(<<"num-slots", "signer">>,
                       <<Bool(TRUE), StandardPrincipal("key1")>>)>>)),
     okay(list(<<Tuple(<<"signer">>, <<StandardPrincipal("key1")>>)>>))}

\* the Clarity values the node answers with: u10, u2^64, true, none, optionals of a
\* uint, of u2^64 and of true, (ok true), the lists of slots, and optionals of a buffer
\* holding a point, 33 bytes that are no point, and buffers of 32 and of 34 bytes
ClarityValues ==
    {UInt(0, 10), UInt(1, 0), Bool(TRUE), none,
     some(UInt(0, 2)), some(UInt(1, 0)), some(Bool(TRUE)), okay(Bool(TRUE)),
     some(Buff(33, "point")), some(Buff(33, "zeros")),
     some(Buff(32, "zeros")), some(Buff(34, "zeros"))}
    \cup SlotValues \cup MalformedSlotValues

\* hex strings of the "result" field: the values, with and without the 0x prefix, nothing,
\* no hex
ClarityHex ==
    {"0x" \o serialize(v) : v \in ClarityValues} \cup {serialize(UInt(0, 10)), "", "0xzz"}

\* ClarityValue::try_deserialize_hex_untyped: the value whose serialization the hex
\* string is, the 0x prefix being optional
try_deserialize_hex_untyped(hex) ==
    LET decoded == {v \in ClarityValues : hex \in {serialize(v), "0x" \o serialize(v)}}
    IN  IF decoded = {} THEN Err("ClaritySerializationError", hex)
        ELSE Ok(CHOOSE v \in decoded : TRUE)

\* the conversions of a Clarity value the client asks for
expect_result_ok(value) ==
    IF value.type = "Response" /\ value.n = 1 THEN Ok(value.items[1])
    ELSE Err("ClarityError", "expected (ok ..)")

expect_list(value) ==
    IF value.type = "List" THEN Ok(value.items) ELSE Err("ClarityError", "expected list")

expect_tuple(value) ==
    IF value.type = "Tuple" THEN Ok(value) ELSE Err("ClarityError", "expected tuple")

\* TupleData::get
tuple_data_get(tuple_data, name) ==
    LET hits == {i \in 1..Len(tuple_data.names) : tuple_data.names[i] = name}
    IN  IF hits = {} THEN Err("ClarityError", "NoSuchTupleField " \o name)
        ELSE Ok(tuple_data.items[CHOOSE i \in hits : TRUE])

expect_principal(value) ==
    IF value.type # "Principal" THEN Err("ClarityError", "expected principal")
    ELSE IF value.n = 0 THEN Ok(Standard(<<"address", value.text>>))
    ELSE Ok(Contract(<<"address", value.text>>))

\* a u128 is kept as its two 64-bit halves
expect_u128(value) ==
    IF value.type = "UInt" THEN Ok([hi |-> value.hi, lo |-> value.n])
    ELSE Err("ClarityError", "expected u128")

expect_optional(value) ==
    IF value.type = "Optional" THEN Ok(value.items)
    ELSE Err("ClarityError", "expected optional")

expect_buff(value, sz) ==
    IF value.type = "Buff" /\ value.n <= sz THEN Ok(value)
    ELSE Err("ClarityError", "expected buff")

\* u64::try_from(u128)
u64_try_from(u) ==
    IF u.hi = 0 THEN Ok(u.lo)
    ELSE Err("TryFromIntError", "out of range integral type conversion attempted")

\* ---- read_only_contract_call ----

FunctionNames == {"function-name", "get-vote"}

\* the answers to the POST: none, a status other than 2xx, a body that is not a
\* CallReadOnlyResponse, or such a body
NoBody == [json |-> FALSE, okay |-> FALSE, result |-> None, cause |-> None]
CallReadOnlyResponses ==
    {[json |-> TRUE, okay |-> o, result |-> r, cause |-> c] :
        o \in BOOLEAN,
        r \in {None} \cup {Some(h) : h \in ClarityHex},
        c \in {None, Some("Some reason"), Some("bad")}}
ReadOnlyResponses ==
    {[sent |-> FALSE, status |-> 0, body |-> NoBody]}
    \cup {[sent |-> TRUE, status |-> s, body |-> NoBody] : s \in Statuses}
    \cup {[sent |-> TRUE, status |-> 200, body |-> b] : b \in CallReadOnlyResponses}

\* a read_only_contract_call that would not look at the okay field
read_only_contract_call_ValueWhenNotOkay(function_name, args_serialize, response) ==
    IF ~args_serialize
    THEN Err("ReadOnlyFailure", "Failed to serialize Clarity function arguments")
    ELSE IF ~response.sent THEN Err("ReqwestError", "send")
    ELSE IF ~is_success(response.status)
    THEN Err("RequestFailure", ToString(response.status))
    ELSE IF ~response.body.json THEN Err("ReqwestError", "json")
    ELSE try_deserialize_hex_untyped(unwrap_or(response.body.result, ""))

read_only_contract_call(function_name, args_serialize, response) ==
    IF ~args_serialize
    THEN Err("ReadOnlyFailure", "Failed to serialize Clarity function arguments")
    ELSE IF ~response.sent THEN Err("ReqwestError", "send")
    ELSE IF ~is_success(response.status)
    THEN Err("RequestFailure", ToString(response.status))
    ELSE IF ~response.body.json THEN Err("ReqwestError", "json")
    ELSE IF ~response.body.okay
    THEN Err("ReadOnlyFailure",
             function_name \o ": " \o unwrap_or(response.body.cause, "unknown"))
    ELSE try_deserialize_hex_untyped(unwrap_or(response.body.result, ""))

\* one call, whether its arguments serialize and what the node answers being any
ReadOnlyContractCall ==
    /\ client_call = NoCall
    /\ \E function_name \in FunctionNames, args_serialize \in BOOLEAN,
          response \in ReadOnlyResponses :
        /\ client_call' = [op |-> "read_only_contract_call",
                           function_name |-> function_name,
                           args_serialize |-> args_serialize, response |-> response]
        /\ client_result' =
                read_only_contract_call(function_name, args_serialize, response)
    /\ last_round' = None
    /\ coordinator_ids' = EmptyMap
    /\ UNCHANGED <<dbvars, evvars, rdvars, rpcvars, ssvars, vmvars, pegvars>>

\* ---- get_node_epoch ----

EpochIds == {"Epoch24", "Epoch25", "Epoch30"}

EpochEntries == [epoch_id : EpochIds, start_height : Heights]

EpochLists == UNION {[1..n -> EpochEntries] : n \in 0..MaxEpochs}

\* RPCPoxInfoData, the fields the client reads
PoxInfo(epochs, first, current, reward_phase, prepare_phase) ==
    [epochs |-> epochs,
     first_burnchain_block_height |-> first,
     current_burnchain_block_height |-> current,
     reward_phase_block_length |-> reward_phase,
     prepare_phase_block_length |-> prepare_phase]

\* Iterator::find: the first entry of that epoch
find(epochs, epoch_id) ==
    LET hits == {i \in 1..Len(epochs) : epochs[i].epoch_id = epoch_id}
    IN  IF hits = {} THEN None
        ELSE Some(epochs[CHOOSE i \in hits : \A j \in hits : i <= j])

\* a comparison that would count the start height to the epoch before
epoch_at_Inclusive(burn_block_height, epoch_25, epoch_30) ==
    IF burn_block_height <= epoch_25.start_height THEN "Epoch24"
    ELSE IF burn_block_height <= epoch_30.start_height THEN "Epoch25"
    ELSE "Epoch30"

\* get_node_epoch, lines 202-208: the epoch of a burn height
epoch_at(burn_block_height, epoch_25, epoch_30) ==
    IF burn_block_height < epoch_25.start_height THEN "Epoch24"
    ELSE IF burn_block_height < epoch_30.start_height THEN "Epoch25"
    ELSE "Epoch30"

\* pox_info is what get_pox_data returned, burn_block_height what get_burn_block_height did
get_node_epoch(pox_info, burn_block_height) ==
    IF pox_info.kind # "Ok" THEN pox_info
    ELSE IF burn_block_height.kind # "Ok" THEN burn_block_height
    ELSE LET epoch_25 == find(pox_info.value.epochs, "Epoch25")
             epoch_30 == find(pox_info.value.epochs, "Epoch30")
         IN  IF epoch_25 = None
             THEN Err("UnsupportedStacksFeature", "/v2/pox must report epochs")
             ELSE IF epoch_30 = None
             THEN Err("UnsupportedStacksFeature", "/v2/pox mut report epochs")
             ELSE Ok(epoch_at(burn_block_height.value, epoch_25[1], epoch_30[1]))

\* one call, the answers to its two requests being any
GetNodeEpoch ==
    /\ client_call = NoCall
    /\ \E pox_info \in RequestErrors \cup {Ok(PoxInfo(e, 0, 0, 1, 1)) : e \in EpochLists},
          burn_block_height \in RequestErrors \cup {Ok(h) : h \in Heights} :
        /\ client_call' = [op |-> "get_node_epoch", pox_info |-> pox_info,
                           burn_block_height |-> burn_block_height]
        /\ client_result' = get_node_epoch(pox_info, burn_block_height)
    /\ last_round' = None
    /\ coordinator_ids' = EmptyMap
    /\ UNCHANGED <<dbvars, evvars, rdvars, rpcvars, ssvars, vmvars, pegvars>>

\* ---- get_current_reward_cycle ----

saturating_sub(a, b) == IF a < b THEN 0 ELSE a - b

saturating_add(a, b) == IF a + b > U64_MAX THEN U64_MAX ELSE a + b

get_current_reward_cycle(pox_data) ==
    IF pox_data.kind # "Ok" THEN pox_data
    ELSE LET blocks_mined ==
                 saturating_sub(pox_data.value.current_burnchain_block_height,
                                pox_data.value.first_burnchain_block_height)
             reward_cycle_length ==
                 saturating_add(pox_data.value.reward_phase_block_length,
                                pox_data.value.prepare_phase_block_length)
         IN  IF reward_cycle_length = 0
             THEN Panicked("attempt to divide by zero")
             ELSE Ok(blocks_mined \div reward_cycle_length)

\* one call, the answer to its request being any
GetCurrentRewardCycle ==
    /\ client_call = NoCall
    /\ \E pox_data \in RequestErrors
                \cup {Ok(PoxInfo(<<>>, f, c, r, l)) : f \in Heights, c \in Heights,
                                                      r \in Heights, l \in Heights} :
        /\ client_call' = [op |-> "get_current_reward_cycle", pox_data |-> pox_data]
        /\ client_result' = get_current_reward_cycle(pox_data)
    /\ last_round' = None
    /\ coordinator_ids' = EmptyMap
    /\ UNCHANGED <<dbvars, evvars, rdvars, rpcvars, ssvars, vmvars, pegvars>>

\* ---- get_registered_signers_info ----

ValidSigningKeys == {"key1", "key2"}

SigningKeys == ValidSigningKeys \cup {"corrupt"}

\* weights of the entries (u32 in the code): small ones, and u32::MAX
Weights == (0..MaxWeight) \cup {U32_MAX}

\* NakamotoSignerEntry, the fields the client reads
SignerEntries == [signing_key : SigningKeys, weight : Weights]

\* the lists of entries of a reward set: any entries, a signing key may be listed twice
SignerLists == UNION {[1..n -> SignerEntries] : n \in 0..MaxSigners}

\* what get_reward_set returns: an error, or a RewardSet with signers or without
RewardSets ==
    RequestErrors \cup {Ok([signers |-> None])}
    \cup {Ok([signers |-> Some(l)]) : l \in SignerLists}

\* the conversions of a signing key
ecdsa_public_key(signing_key) ==
    IF signing_key \in ValidSigningKeys THEN Ok(<<"ecdsa", signing_key>>)
    ELSE Err("CorruptedRewardSet", "ecdsa::PublicKey")
point(ecdsa) == Ok(<<"point", ecdsa[2]>>)
stacks_public_key(signing_key) ==
    IF signing_key \in ValidSigningKeys THEN Ok(<<"stacks", signing_key>>)
    ELSE Err("CorruptedRewardSet", "StacksPublicKey")
p2pkh(public_key) == <<"address", public_key[2]>>

Addresses == {p2pkh(stacks_public_key(k).value) : k \in ValidSigningKeys}

\* what read_only_contract_call returns to get_stackerdb_signer_slots
SlotAnswers == {Err("RequestFailure", "404")} \cup {Ok(v) : v \in SlotValues}

\* the loop of parse_signer_slots from item i on (lines 144-154): the first conversion
\* that fails returns its error, a principal that is not standard panics
RECURSIVE ParseSlots(_, _, _)
ParseSlots(values, i, signer_slots) ==
    IF i > Len(values) THEN Ok(signer_slots)
    ELSE LET tuple_data == expect_tuple(values[i])
             signer == tuple_data_get(tuple_data.value, "signer")
             principal_data == expect_principal(signer.value)
             slots == tuple_data_get(tuple_data.value, "num-slots")
             num_slots == expect_u128(slots.value)
         IN  IF tuple_data.kind # "Ok" THEN tuple_data
             ELSE IF signer.kind # "Ok" THEN signer
             ELSE IF principal_data.kind # "Ok" THEN principal_data
             ELSE IF principal_data.value.kind # "Standard"
             THEN Panicked("BUG: Signers stackerdb contract is corrupted")
             ELSE IF slots.kind # "Ok" THEN slots
             ELSE IF num_slots.kind # "Ok" THEN num_slots
             ELSE ParseSlots(values, i + 1,
                             Append(signer_slots,
                                    <<principal_data.value.address, num_slots.value>>))

parse_signer_slots(value) ==
    LET response == expect_result_ok(value)
        values == expect_list(response.value)
    IN  IF response.kind # "Ok" THEN response
        ELSE IF values.kind # "Ok" THEN values
        ELSE ParseSlots(values.value, 1, <<>>)

\* answer is what read_only_contract_call returned for the page
get_stackerdb_signer_slots(answer) ==
    IF answer.kind # "Ok" THEN answer ELSE parse_signer_slots(answer.value)

\* Compressed::try_from(&[u8]): the 33 bytes of a compressed point
compressed_try_from(data) ==
    IF data.n = 33 THEN Ok(data)
    ELSE Err("MalformedClarityValue",
             "Failed to convert aggregate public key to compressed data")

\* Point::try_from(&Compressed): the point, when the bytes are one of the curve
point_try_from(compressed_data) ==
    IF compressed_data.text = "point" THEN Ok(<<"point", compressed_data.text>>)
    ELSE Err("MalformedClarityValue", "Failed to convert aggregate public key to a point")

parse_aggregate_public_key(value) ==
    LET opt == expect_optional(value)
        data == expect_buff(opt.value[1], 33)
        compressed_data == compressed_try_from(data.value)
        aggregate == point_try_from(compressed_data.value)
    IN  IF opt.kind # "Ok" THEN opt
        ELSE IF opt.value = None THEN Ok(None)
        ELSE IF data.kind # "Ok" THEN data
        ELSE IF compressed_data.kind # "Ok" THEN compressed_data
        ELSE IF aggregate.kind # "Ok" THEN aggregate
        ELSE Ok(Some(aggregate.value))

\* answer is what read_only_contract_call returned for get-vote
get_vote_for_aggregate_public_key(answer) ==
    IF answer.kind # "Ok" THEN answer ELSE parse_aggregate_public_key(answer.value)

\* answer is what read_only_contract_call returned for get-approved-aggregate-key
get_approved_aggregate_key(answer) ==
    IF answer.kind # "Ok" THEN answer ELSE parse_aggregate_public_key(answer.value)

\* answer is what read_only_contract_call returned for get-last-round
get_last_round(answer) ==
    LET opt_value == expect_optional(answer.value)
        value == expect_u128(opt_value.value[1])
        round == u64_try_from(value.value)
    IN  IF answer.kind # "Ok" THEN answer
        ELSE IF opt_value.kind # "Ok" THEN opt_value
        ELSE IF opt_value.value = None THEN Ok(None)
        ELSE IF value.kind # "Ok" THEN value
        ELSE IF round.kind # "Ok"
        THEN Err("MalformedContractData",
                 "Failed to convert vote round to u64: " \o round.detail)
        ELSE Ok(Some(round.value))

\* the maps of get_registered_signers_info before the first entry
NoEntries ==
    [weight_end |-> 1,
     coordinator_key_ids |-> EmptyMap,
     signer_key_ids |-> EmptyMap,
     signer_ids |-> EmptyMap,
     public_keys |-> [signers |-> EmptyMap, key_ids |-> EmptyMap],
     signer_public_keys |-> EmptyMap]

\* the signer id of the entry at position i (positions are counted from 1 here)
signer_id_at(i) == i - 1

\* HashSet::with_capacity(entry.weight as usize) and Vec::with_capacity(entry.weight as
\* usize) (lines 373, 377): whether the capacity is allocated. A small one always is; one
\* of the size of u32::MAX only on a machine that has the memory for it
with_capacity(capacity, memory_suffices) == capacity <= MaxWeight \/ memory_suffices

\* one pass of the loop over the reward set, for an entry whose key converts (lines
\* 345-379). weight_start + entry.weight is a u32 addition (line 367): when the sum is
\* above u32::MAX a build with overflow checks panics and a build without them wraps.
\* Every pass of the loop over the key ids allocates a set and a vector of the capacity
\* entry.weight (lines 373, 377): where that fails the process is ended
RegisterEntry(acc, i, entry, overflow_checks, memory_suffices) ==
    LET signer_id == signer_id_at(i)
        ecdsa == ecdsa_public_key(entry.signing_key).value
        signer_public_key == point(ecdsa).value
        stacks_address == p2pkh(stacks_public_key(entry.signing_key).value)
        weight_start == acc.weight_end
        weight_end == (weight_start + entry.weight) % (U32_MAX + 1)
        key_ids == weight_start..(weight_end - 1)
    IN  IF overflow_checks /\ weight_start + entry.weight > U32_MAX
        THEN Panicked("attempt to add with overflow")
        ELSE IF key_ids # {} /\ ~with_capacity(entry.weight, memory_suffices)
        THEN Aborted("memory allocation failed")
        ELSE Ok(
        [weight_end |-> weight_end,
         signer_ids |-> Insert(acc.signer_ids, stacks_address, signer_id),
         signer_public_keys |-> Insert(acc.signer_public_keys, signer_id, signer_public_key),
         public_keys |->
            [key_ids |-> [k \in (DOMAIN acc.public_keys.key_ids) \cup key_ids |->
                            IF k \in key_ids THEN ecdsa ELSE acc.public_keys.key_ids[k]],
             signers |-> IF key_ids = {} THEN acc.public_keys.signers
                         ELSE Insert(acc.public_keys.signers, signer_id, ecdsa)],
         coordinator_key_ids |-> IF key_ids = {} THEN acc.coordinator_key_ids
                                 ELSE Insert(acc.coordinator_key_ids, signer_id, key_ids),
         signer_key_ids |-> IF key_ids = {} THEN acc.signer_key_ids
                            ELSE Insert(acc.signer_key_ids, signer_id,
                                        [j \in 1..Cardinality(key_ids) |->
                                            weight_start + j - 1])])

\* the conversion of entry's key that fails first, None when all three succeed
FailedConversion(entry) ==
    LET ecdsa == ecdsa_public_key(entry.signing_key)
    IN  IF ecdsa.kind # "Ok" THEN Some(ecdsa)
        ELSE IF point(ecdsa.value).kind # "Ok" THEN Some(point(ecdsa.value))
        ELSE IF stacks_public_key(entry.signing_key).kind # "Ok"
        THEN Some(stacks_public_key(entry.signing_key))
        ELSE None

\* the loop over the reward set from position i on: the maps, the error of the first
\* entry whose key does not convert, the panic of the addition or the end of the process
RECURSIVE RegisterEntries(_, _, _, _, _, _)
RegisterEntries(rc, reward_set_signers, i, acc, overflow_checks, memory_suffices) ==
    IF i > Len(reward_set_signers) THEN Ok(acc)
    ELSE LET failed == FailedConversion(reward_set_signers[i])
             registered == RegisterEntry(acc, i, reward_set_signers[i], overflow_checks,
                                         memory_suffices)
         IN  IF failed # None
             THEN Err("CorruptedRewardSet",
                      "Reward cycle " \o ToString(rc)
                        \o " failed to convert signing key to " \o failed[1].detail)
             ELSE IF registered.kind # "Ok" THEN registered
             ELSE RegisterEntries(rc, reward_set_signers, i + 1, registered.value,
                                  overflow_checks, memory_suffices)

\* the map address -> index of the slots list, a later entry replacing an earlier one
SlotIdsOf(signer_slots_weights) ==
    LET addresses == {signer_slots_weights[i][1] : i \in 1..Len(signer_slots_weights)}
    IN  [a \in addresses |->
            (CHOOSE i \in 1..Len(signer_slots_weights) :
                /\ signer_slots_weights[i][1] = a
                /\ \A j \in 1..Len(signer_slots_weights) :
                    signer_slots_weights[j][1] = a => j <= i) - 1]

\* the loop that looks every signer's address up in the slot ids
AllHaveSlots(signer_ids, signer_slot_ids) ==
    \A address \in DOMAIN signer_ids : address \in DOMAIN signer_slot_ids

\* the page of the signers contract asked for
signer_set(rc) == rc % 2

\* reward_set is what get_reward_set returned, slots_answer what the signers contract
\* answered for the page signer_set(rc), overflow_checks whether the build checks the
\* integer additions, memory_suffices whether the machine can allocate a capacity of the
\* size of u32::MAX
get_registered_signers_info(rc, reward_set, slots_answer, overflow_checks, memory_suffices) ==
    IF reward_set.kind # "Ok" THEN reward_set
    ELSE IF reward_set.value.signers = None THEN Ok(None)
    ELSE IF reward_set.value.signers[1] = <<>> THEN Ok(None)
    ELSE LET entries == RegisterEntries(rc, reward_set.value.signers[1], 1, NoEntries,
                                      overflow_checks, memory_suffices)
             slots == get_stackerdb_signer_slots(slots_answer)
         IN  IF entries.kind # "Ok" THEN entries
             ELSE IF slots.kind = "panic" THEN slots
             ELSE IF slots.kind # "Ok"
             THEN Panicked("called Result::unwrap() on an Err value")
             ELSE LET signer_slot_ids == SlotIdsOf(slots.value)
                  IN  IF ~AllHaveSlots(entries.value.signer_ids, signer_slot_ids)
                      THEN Ok(None)
                      ELSE Ok(Some([public_keys |-> entries.value.public_keys,
                                    signer_key_ids |-> entries.value.signer_key_ids,
                                    signer_ids |-> entries.value.signer_ids,
                                    signer_slot_ids |-> signer_slot_ids,
                                    signer_public_keys |-> entries.value.signer_public_keys,
                                    coordinator_key_ids |->
                                        entries.value.coordinator_key_ids]))

ClientCycles == {1, 2}

LastRounds == {None} \cup {Some(r) : r \in 0..MaxRound}

IsInfo(res) == res.kind = "Ok" /\ res.value # None

\* one call, the reward set and the answer of the signers contract being any; when info
\* is returned the cycle's last vote round, which the election reads, is any too
GetRegisteredSignersInfo ==
    /\ client_call = NoCall
    /\ \E rc \in ClientCycles, reward_set \in RewardSets, slots_answer \in SlotAnswers,
          round \in LastRounds, overflow_checks \in BOOLEAN,
          memory_suffices \in BOOLEAN :
        LET res == get_registered_signers_info(rc, reward_set, slots_answer,
                                               overflow_checks, memory_suffices)
        IN  /\ IsInfo(res) \/ round = None
            /\ client_call' = [op |-> "get_registered_signers_info", reward_cycle |-> rc,
                               reward_set |-> reward_set, page |-> signer_set(rc),
                               slots_answer |-> slots_answer,
                               overflow_checks |-> overflow_checks,
                               memory_suffices |-> memory_suffices]
            /\ client_result' = res
            /\ last_round' = round
    /\ coordinator_ids' = EmptyMap
    /\ UNCHANGED <<dbvars, evvars, rdvars, rpcvars, ssvars, vmvars, pegvars>>

\* ---- coordinator election ----

round_seed(round) == unwrap_or(round, 0)

calculate_coordinator(round, num_signers) == round_seed(round) % num_signers

\* the signer of that address, holding the registered signers' info, computes the
\* coordinator of the cycle
SelectCoordinator(address) ==
    /\ client_call.op = "get_registered_signers_info"
    /\ IsInfo(client_result)
    /\ address \in DOMAIN client_result.value[1].signer_ids
    /\ address \notin DOMAIN coordinator_ids
    /\ coordinator_ids' =
            Insert(coordinator_ids, address,
                   calculate_coordinator(last_round,
                        Cardinality(DOMAIN client_result.value[1].signer_ids)))
    /\ UNCHANGED <<client_call, client_result, last_round>>
    /\ UNCHANGED <<dbvars, evvars, rdvars, rpcvars, ssvars, vmvars, pegvars>>

ClStep ==
    \/ ReadOnlyContractCall
    \/ GetNodeEpoch
    \/ GetCurrentRewardCycle
    \/ GetRegisteredSignersInfo
    \/ \E a \in Addresses : SelectCoordinator(a)

----------------------------------------------------------------------------
\* Node RPC client (stacks_client.rs): the operations, request by request

\* peer_info is what get_peer_info returned
get_burn_block_height(peer_info) ==
    IF peer_info.kind # "Ok" THEN peer_info ELSE Ok(peer_info.value.burn_block_height)

\* account_entry is what get_account_entry returned
get_account_nonce(account_entry) ==
    IF account_entry.kind # "Ok" THEN account_entry ELSE Ok(account_entry.value.nonce)

\* the bodies of the node's responses are texts. Of the JSON objects of /v2/info,
\* /v2/pox, the stackers and the accounts the texts here hold the fields the client
\* reads; a CallReadOnlyResponse is written in full

\* the JSON text of a CallReadOnlyResponse
CallReadOnlyBody(is_okay, hex, cause) ==
    "{\"okay\":" \o (IF is_okay THEN "true" ELSE "false")
    \o (IF hex = None THEN "" ELSE ",\"result\":\"" \o hex[1] \o "\"")
    \o (IF cause = None THEN "" ELSE ",\"cause\":\"" \o cause[1] \o "\"")
    \o "}"

PeerInfoBody(peer_info) ==
    "{\"burn_block_height\":" \o ToString(peer_info.burn_block_height) \o "}"

PoxBody(pox_info) ==
    "{\"first_burnchain_block_height\":"
        \o ToString(pox_info.first_burnchain_block_height)
    \o ",\"current_burnchain_block_height\":"
        \o ToString(pox_info.current_burnchain_block_height)
    \o ",\"prepare_phase_block_length\":" \o ToString(pox_info.prepare_phase_block_length)
    \o ",\"reward_phase_block_length\":" \o ToString(pox_info.reward_phase_block_length)
    \o ",\"epochs\":[]}"

AccountBody(account_entry) ==
    "{\"nonce\":" \o ToString(account_entry.nonce)
    \o ",\"balance\":\"0x00000000000000000000000000000000\""
    \o ",\"locked\":\"0x00000000000000000000000000000000\",\"unlock_height\":0}"

StackersBody(reward_set) ==
    "{\"stacker_set\":{\"signers\":"
    \o (IF reward_set.signers = None THEN "null"
        ELSE "[{\"signing_key\":\"" \o reward_set.signers[1][1].signing_key
             \o "\",\"weight\":" \o ToString(reward_set.signers[1][1].weight) \o "}]")
    \o "}}"

\* what the bodies of the model hold
PeerInfos == {[burn_block_height |-> h] : h \in Heights}

PoxInfos == {PoxInfo(<<>>, f, c, r, l) : f \in {0, 1}, c \in {0, U64_MAX},
                                         r \in {0, U64_MAX}, l \in {0, 1}}

AccountEntries == {[nonce |-> n] : n \in {0, 1}}

StackerSets == {[signers |-> None],
                [signers |-> Some(<<[signing_key |-> "key1", weight |-> 1]>>)]}

\* bodies that are no JSON at all, or an account entry whose nonce is a string (the body
\* of the test get_account_nonce_should_fail)
OtherBodies ==
    {"", "4e99f99bc4a05437abb8c7d0c306618f45b203196498e2ebe287f10497124958",
     "{\"nonce\":\"invalid nonce\""
     \o ",\"balance\":\"0x00000000000000000000000000000000\""
     \o ",\"locked\":\"0x00000000000000000000000000000000\",\"unlock_height\":0}"}

\* the bodies the node answers with
RpcBodies ==
    {CallReadOnlyBody(TRUE, Some(hex), None) : hex \in ClarityHex}
    \cup {CallReadOnlyBody(o, None, cause) :
            o \in BOOLEAN, cause \in {None, Some("bad")}}
    \cup {PeerInfoBody(p) : p \in PeerInfos}
    \cup {PoxBody(p) : p \in PoxInfos}
    \cup {AccountBody(a) : a \in AccountEntries}
    \cup {StackersBody(s) : s \in StackerSets}
    \cup OtherBodies

\* response.json::<T>(): the T the body is the text of, or reqwest's error
json_CallReadOnlyResponse(body) ==
    LET decoded == {r \in CallReadOnlyResponses :
                        CallReadOnlyBody(r.okay, r.result, r.cause) = body}
    IN  IF decoded = {} THEN NoBody ELSE CHOOSE r \in decoded : TRUE

json_RPCPeerInfoData(body) ==
    LET decoded == {p \in PeerInfos : PeerInfoBody(p) = body}
    IN  IF decoded = {} THEN Err("ReqwestError", "json")
        ELSE Ok(CHOOSE p \in decoded : TRUE)

json_RPCPoxInfoData(body) ==
    LET decoded == {p \in PoxInfos : PoxBody(p) = body}
    IN  IF decoded = {} THEN Err("ReqwestError", "json")
        ELSE Ok(CHOOSE p \in decoded : TRUE)

json_AccountEntryResponse(body) ==
    LET decoded == {a \in AccountEntries : AccountBody(a) = body}
    IN  IF decoded = {} THEN Err("ReqwestError", "json")
        ELSE Ok(CHOOSE a \in decoded : TRUE)

\* get_reward_set returns the stacker_set of the GetStackersResponse
json_GetStackersResponse(body) ==
    LET decoded == {s \in StackerSets : StackersBody(s) = body}
    IN  IF decoded = {} THEN Err("ReqwestError", "json")
        ELSE Ok(CHOOSE s \in decoded : TRUE)

\* what an operation returns for a 2xx response: the two submit functions return after
\* the status check (lines 226-230 and 545-549), the others decode the body, and the
\* operations built on them go on with what they return
OnSuccess(op, status, body) ==
    LET answer(function_name) ==
            read_only_contract_call(function_name, TRUE,
                [sent |-> TRUE, status |-> status,
                 body |-> json_CallReadOnlyResponse(body)])
    IN  CASE op = "submit_block_for_validation" -> Ok(<<>>)
          [] op = "submit_transaction" -> Ok("txid")
          [] op = "get_peer_info" -> json_RPCPeerInfoData(body)
          [] op = "get_burn_block_height" ->
                get_burn_block_height(json_RPCPeerInfoData(body))
          [] op = "get_pox_data" -> json_RPCPoxInfoData(body)
          [] op = "get_current_reward_cycle" ->
                get_current_reward_cycle(json_RPCPoxInfoData(body))
          [] op = "get_account_entry" -> json_AccountEntryResponse(body)
          [] op = "get_account_nonce" ->
                get_account_nonce(json_AccountEntryResponse(body))
          [] op = "get_reward_set" -> json_GetStackersResponse(body)
          [] op = "read_only_contract_call" -> answer("function-name")
          [] op = "get_stackerdb_signer_slots" ->
                get_stackerdb_signer_slots(answer("stackerdb-get-signer-slots-page"))
          [] op = "get_vote_for_aggregate_public_key" ->
                get_vote_for_aggregate_public_key(answer("get-vote"))
          [] op = "get_approved_aggregate_key" ->
                get_approved_aggregate_key(answer("get-approved-aggregate-key"))
          [] op = "get_last_round" -> get_last_round(answer("get-last-round"))

\* an operation that would send the request again after a non-2xx response
OnResponse_RetryOnFailure(op, status, body) ==
    IF ~is_success(status) THEN Retry ELSE OnSuccess(op, status, body)

\* what an operation does with a response: every function that sends a request checks
\* the status first and returns RequestFailure(status) when it is not 2xx
OnResponse(op, status, body) ==
    IF ~is_success(status) THEN Err("RequestFailure", ToString(status))
    ELSE OnSuccess(op, status, body)

\* the operations that send two requests one after the other, with the functions that
\* send them: get_node_epoch (lines 183-184) and get_registered_signers_info (lines 324
\* and 386-388)
ChainedRequests ==
    "get_node_epoch" :> <<"get_pox_data", "get_burn_block_height">> @@
    "get_registered_signers_info" :> <<"get_reward_set", "get_stackerdb_signer_slots">>

ChainedOps == DOMAIN ChainedRequests

\* the function whose request the operation is sending, `first` being what its first
\* request returned (NoResult while that one is being sent)
CurrentRequest(op, first) ==
    IF op \in ChainedOps
    THEN ChainedRequests[op][IF first.kind = "none" THEN 1 ELSE 2]
    ELSE op

\* the operation goes on to its second request
NextRequest == [kind |-> "next", value |-> None, error |-> "", detail |-> ""]

\* whether get_registered_signers_info, its reward set being reward_set, gets as far as
\* the lookup of the signer slots (lines 325-380)
AsksForSlots(rc, reward_set, overflow_checks, memory_suffices) ==
    /\ reward_set.kind = "Ok"
    /\ reward_set.value.signers # None
    /\ reward_set.value.signers[1] # <<>>
    /\ RegisterEntries(rc, reward_set.value.signers[1], 1, NoEntries, overflow_checks,
                       memory_suffices).kind = "Ok"

\* what the function sending the request in progress returns for a response; of the
\* lookup of the signer slots it is what read_only_contract_call returns (lines 126-133),
\* which get_registered_signers_info (the operator) parses
RequestReturns(op, first, status, body) ==
    IF op = "get_registered_signers_info" /\ first.kind # "none"
    THEN read_only_contract_call("stackerdb-get-signer-slots-page", TRUE,
                                 [sent |-> TRUE, status |-> status,
                                  body |-> json_CallReadOnlyResponse(body)])
    ELSE OnResponse(CurrentRequest(op, first), status, body)

\* what the operation does with what the function sending its request returned: an
\* operation of one request returns it; get_node_epoch hands an error on with `?` and goes
\* on after the pox data; get_registered_signers_info hands the error of get_reward_set
\* on, and unwraps what the lookup of the signer slots returned
Continue(op, rc, first, returned, overflow_checks, memory_suffices) ==
    IF op \notin ChainedOps \/ returned.kind = "retry" THEN returned
    ELSE IF op = "get_node_epoch"
    THEN IF first.kind # "none" THEN get_node_epoch(first, returned)
         ELSE IF returned.kind = "Ok" THEN NextRequest
         ELSE get_node_epoch(returned, NoResult)
    ELSE IF first.kind # "none"
         THEN get_registered_signers_info(rc, first, returned, overflow_checks,
                                          memory_suffices)
         ELSE IF AsksForSlots(rc, returned, overflow_checks, memory_suffices)
         THEN NextRequest
         ELSE get_registered_signers_info(rc, returned, NoResult, overflow_checks,
                                          memory_suffices)

\* an operation of the client is called; rc is the reward cycle
\* get_registered_signers_info is called with
RpcCall(op, rc) ==
    /\ rpc_pc = "idle"
    /\ rpc_calls < MaxRpcCalls
    /\ op = "get_registered_signers_info" \/ rc = 0
    /\ rpc_pc' = "sending"
    /\ rpc_op' = op
    /\ rpc_cycle' = rc
    /\ rpc_result' = NoResult
    /\ rpc_calls' = rpc_calls + 1
    /\ rpc_attempts' = 0
    /\ rpc_tries' = 0
    /\ rpc_first' = NoResult
    /\ rpc_responses' = <<>>
    /\ UNCHANGED <<dbvars, evvars, rdvars, clvars, ssvars, vmvars, pegvars>>

\* the request is sent and send() fails; `deadline` tells whether the backoff's overall
\* deadline is over (it is after MaxAttempts requests)
RpcSendFails(deadline, overflow_checks, memory_suffices) ==
    LET returned == OnSendError(CurrentRequest(rpc_op, rpc_first), deadline)
        outcome == Continue(rpc_op, rpc_cycle, rpc_first, returned, overflow_checks,
                            memory_suffices)
    IN  /\ rpc_pc = "sending"
        /\ deadline = (rpc_tries + 1 >= MaxAttempts)
        /\ rpc_attempts' = rpc_attempts + 1
        /\ rpc_tries' = rpc_tries + 1
        /\ IF outcome.kind = "retry"
             THEN UNCHANGED <<rpc_pc, rpc_result>>
             ELSE /\ rpc_pc' = "idle"
                  /\ rpc_result' = outcome
        /\ UNCHANGED <<rpc_op, rpc_calls, rpc_first, rpc_cycle, rpc_responses>>
        /\ UNCHANGED <<dbvars, evvars, rdvars, clvars, ssvars, vmvars, pegvars>>

\* the request is sent and the node answers with `status` and `body`
RpcResponds(status, body, overflow_checks, memory_suffices) ==
    LET returned == RequestReturns(rpc_op, rpc_first, status, body)
        outcome == Continue(rpc_op, rpc_cycle, rpc_first, returned, overflow_checks,
                            memory_suffices)
    IN  /\ rpc_pc = "sending"
        /\ rpc_tries < MaxAttempts
        /\ rpc_attempts' = rpc_attempts + 1
        /\ rpc_responses' = Append(rpc_responses, status)
        /\ IF outcome.kind = "retry"
             THEN /\ rpc_tries' = rpc_tries + 1
                  /\ UNCHANGED <<rpc_pc, rpc_result, rpc_first>>
             ELSE IF outcome.kind = "next"
             THEN /\ rpc_tries' = 0
                  /\ rpc_first' = returned
                  /\ UNCHANGED <<rpc_pc, rpc_result>>
             ELSE /\ rpc_pc' = "idle"
                  /\ rpc_result' = outcome
                  /\ rpc_tries' = rpc_tries + 1
                  /\ UNCHANGED rpc_first
        /\ UNCHANGED <<rpc_op, rpc_calls, rpc_cycle>>
        /\ UNCHANGED <<dbvars, evvars, rdvars, clvars, ssvars, vmvars, pegvars>>

RpcStep ==
    \/ \E op \in RpcOps \cup ChainedOps, rc \in {0} \cup ClientCycles : RpcCall(op, rc)
    \/ \E deadline \in BOOLEAN, overflow_checks \in BOOLEAN, memory_suffices \in BOOLEAN :
            RpcSendFails(deadline, overflow_checks, memory_suffices)
    \/ \E status \in Statuses, body \in RpcBodies, overflow_checks \in BOOLEAN,
          memory_suffices \in BOOLEAN :
            RpcResponds(status, body, overflow_checks, memory_suffices)

----------------------------------------------------------------------------
\* StackerDB sessions (stackerdb.rs): new and the reads of transactions

\* width in bits of the reward cycle (u64 in the code)
CycleBits == 3
RewardCycles == 0..(2^CycleBits - 1)

TRANSACTIONS_MSG_ID == 11

wrapping_add(a, b) == (a + b) % 2^CycleBits

\* NakamotoSigners::make_signers_db_name
make_signers_db_name(cycle, message_id) ==
    "signers-" \o ToString(cycle) \o "-" \o ToString(message_id)

\* the contract a session is bound to
StackerDBSession(name) == [issuer |-> "boot_code_addr", name |-> name]

NoSession == [issuer |-> "", name |-> ""]

SsInit ==
    /\ reward_cycle = -1
    /\ signers_message_stackerdb_sessions = EmptyMap
    /\ next_transaction_session = NoSession
    /\ session_reads = <<>>

\* a constructor that would bind the next session to the cycle's own contract
StackerDBNew_NextOfSameCycle(cycle) ==
    /\ reward_cycle = -1
    /\ reward_cycle' = cycle
    /\ signers_message_stackerdb_sessions' =
            [m \in 0..(SIGNER_SLOTS_PER_USER - 1) |->
                StackerDBSession(make_signers_db_name(cycle, m))]
    /\ next_transaction_session' =
            StackerDBSession(make_signers_db_name(cycle, TRANSACTIONS_MSG_ID))
    /\ UNCHANGED session_reads
    /\ UNCHANGED <<dbvars, evvars, rdvars, rpcvars, clvars, vmvars, pegvars>>

\* StackerDB::new
StackerDBNew(cycle) ==
    /\ reward_cycle = -1
    /\ reward_cycle' = cycle
    /\ signers_message_stackerdb_sessions' =
            [m \in 0..(SIGNER_SLOTS_PER_USER - 1) |->
                StackerDBSession(make_signers_db_name(cycle, m))]
    /\ next_transaction_session' =
            StackerDBSession(make_signers_db_name(wrapping_add(cycle, 1),
                                                  TRANSACTIONS_MSG_ID))
    /\ UNCHANGED session_reads
    /\ UNCHANGED <<dbvars, evvars, rdvars, rpcvars, clvars, vmvars, pegvars>>

\* a read of transactions: the operation, the session get_transactions was called with
\* (the contract the node is asked for) and the kind of result the operation returned
SessionRead(op, session, kind) == [op |-> op, result |-> kind, session |-> session]

\* get_current_transactions_with_retry(signer_id), lines 229-241
GetCurrentTransactionsWithRetry(signer_id, answer) ==
    LET op == "get_current_transactions_with_retry"
    IN  /\ reward_cycle >= 0
        /\ rd_pc = "idle"
        /\ IF TRANSACTIONS_MSG_ID \in DOMAIN signers_message_stackerdb_sessions
             THEN /\ get_transactions(<<signer_id>>, answer)
                  /\ session_reads' =
                        Append(session_reads,
                               SessionRead(op,
                                   signers_message_stackerdb_sessions[TRANSACTIONS_MSG_ID],
                                   rd_result'.kind))
             ELSE /\ session_reads' =
                        Append(session_reads, SessionRead(op, NoSession, "NotConnected"))
                  /\ UNCHANGED rdvars
        /\ UNCHANGED <<reward_cycle, signers_message_stackerdb_sessions,
                       next_transaction_session>>
        /\ UNCHANGED <<dbvars, evvars, rpcvars, clvars, vmvars, pegvars>>

\* get_next_transactions_with_retry(signer_ids), lines 244-250, is called and the
\* exchange for the first slot is over; the read is recorded with the session handed to
\* get_transactions, its result being "none" as long as the call has not returned
GetNextTransactionsWithRetry(signer_ids, answer) ==
    /\ reward_cycle >= 0
    /\ get_transactions(signer_ids, answer)
    /\ session_reads' =
            Append(session_reads,
                   SessionRead("get_next_transactions_with_retry",
                               next_transaction_session, rd_result'.kind))
    /\ UNCHANGED <<reward_cycle, signers_message_stackerdb_sessions,
                   next_transaction_session>>
    /\ UNCHANGED <<dbvars, evvars, rpcvars, clvars, vmvars, pegvars>>

\* that call has the exchange for its next slot; after the last one it returns
GetNextTransactionsWithRetryNextSlot(answer) ==
    /\ reward_cycle >= 0
    /\ get_transactions_NextSlot(answer)
    /\ session_reads' =
            [session_reads EXCEPT ![Len(session_reads)].result = rd_result'.kind]
    /\ UNCHANGED <<reward_cycle, signers_message_stackerdb_sessions,
                   next_transaction_session>>
    /\ UNCHANGED <<dbvars, evvars, rpcvars, clvars, vmvars, pegvars>>

SsStep ==
    \/ \E c \in RewardCycles : StackerDBNew(c)
    \/ \E signer_id \in PeerSlots, answer \in NodeAnswers :
            GetCurrentTransactionsWithRetry(signer_id, answer)
    \/ \E signer_ids \in SignerIdLists, answer \in NodeAnswers :
            GetNextTransactionsWithRetry(signer_ids, answer)
    \/ \E answer \in NodeAnswers : GetNextTransactionsWithRetryNextSlot(answer)

----------------------------------------------------------------------------
\* Clarity VM: the special functions or and and (blockstack-vm, functions/boolean.rs)

\* arguments of a call, at most
MaxArgs == 3

\* Value: Value::Bool(b), or a value of another type
BoolValue(b) == [type |-> "Bool", bool |-> b, int |-> 0]
IntValue(n) == [type |-> "Int", bool |-> FALSE, int |-> n]

\* a SymbolicExpression, given by what eval makes of it: a value, or an error
Expressions ==
    { Ok(BoolValue(TRUE)), Ok(BoolValue(FALSE)), Ok(IntValue(1)),
      Err("UndefinedVariable", "x") }

ArgLists == UNION { [1..n -> Expressions] : n \in 0..MaxArgs }

\* eval(&arg, env, context)
eval(arg) == arg

\* type_force_bool, lines 6-11
type_force_bool(value) ==
    IF value.type = "Bool" THEN Ok(value.bool)
    ELSE Err("TypeError", "BoolType")

\* what a call returns, and the number of arguments it has evaluated
Returned(res, evaluated) == [result |-> res, evaluated |-> evaluated]

\* a loop that would evaluate every argument before it looks at any of them
RECURSIVE or_loop_NoShortCircuit(_, _)
or_loop_NoShortCircuit(args, i) ==
    IF i > Len(args) THEN Returned(Ok(BoolValue(FALSE)), Len(args))
    ELSE LET rest == or_loop_NoShortCircuit(args, i + 1)
             evaluated == eval(args[i])
         IN  IF evaluated.kind # "Ok" THEN Returned(evaluated, Len(args))
             ELSE LET forced == type_force_bool(evaluated.value)
                  IN  IF forced.kind # "Ok" THEN Returned(forced, Len(args))
                      ELSE IF rest.result.kind # "Ok" THEN rest
                      ELSE IF forced.value THEN Returned(Ok(BoolValue(TRUE)), Len(args))
                      ELSE rest

\* special_or, lines 18-26: the loop over the arguments from the i-th on
RECURSIVE or_loop(_, _)
or_loop(args, i) ==
    IF i > Len(args) THEN Returned(Ok(BoolValue(FALSE)), Len(args))
    ELSE LET evaluated == eval(args[i])
         IN  IF evaluated.kind # "Ok" THEN Returned(evaluated, i)
             ELSE LET forced == type_force_bool(evaluated.value)
                  IN  IF forced.kind # "Ok" THEN Returned(forced, i)
                      ELSE IF forced.value THEN Returned(Ok(BoolValue(TRUE)), i)
                      ELSE or_loop(args, i + 1)

\* special_or, lines 13-27
special_or(args) ==
    IF Len(args) < 1
      THEN Returned(Err("InvalidArguments", "(or ...) requires at least 1 argument"), 0)
      ELSE or_loop(args, 1)

\* special_and, lines 34-42: the loop over the arguments from the i-th on
RECURSIVE and_loop(_, _)
and_loop(args, i) ==
    IF i > Len(args) THEN Returned(Ok(BoolValue(TRUE)), Len(args))
    ELSE LET evaluated == eval(args[i])
         IN  IF evaluated.kind # "Ok" THEN Returned(evaluated, i)
             ELSE LET forced == type_force_bool(evaluated.value)
                  IN  IF forced.kind # "Ok" THEN Returned(forced, i)
                      ELSE IF ~forced.value THEN Returned(Ok(BoolValue(FALSE)), i)
                      ELSE and_loop(args, i + 1)

\* special_and, lines 29-43
special_and(args) ==
    IF Len(args) < 1
      THEN Returned(Err("InvalidArguments", "(and ...) requires at least 1 argument"), 0)
      ELSE and_loop(args, 1)

NoVmCall == [op |-> "none", args |-> <<>>]

VmInit ==
    /\ vm_call = NoVmCall
    /\ vm_result = Returned(NoResult, 0)

\* (or ...) is evaluated
SpecialOr ==
    /\ vm_call = NoVmCall
    /\ \E args \in ArgLists :
        /\ vm_call' = [op |-> "or", args |-> args]
        /\ vm_result' = special_or(args)
    /\ UNCHANGED <<dbvars, evvars, rdvars, rpcvars, clvars, ssvars, pegvars>>

\* (and ...) is evaluated
SpecialAnd ==
    /\ vm_call = NoVmCall
    /\ \E args \in ArgLists :
        /\ vm_call' = [op |-> "and", args |-> args]
        /\ vm_result' = special_and(args)
    /\ UNCHANGED <<dbvars, evvars, rdvars, rpcvars, clvars, ssvars, pegvars>>

VmStep == SpecialOr \/ SpecialAnd

----------------------------------------------------------------------------
\* Burn operations: PegInOp (stackslib, chainstate/burn/operations/peg_in.rs)

\* the largest amount of a recipient in the model
MaxAmount == 2

Amounts == 0..MaxAmount

\* BurnchainTransaction::opcode: Opcodes::PegIn, or the opcode of another operation
TxOpcodes == {"PegIn", "StackStx"}

\* BurnchainRecipient
BurnchainRecipient(amount) == [amount |-> amount, address |-> "peg wallet"]

\* BurnchainTransaction::get_recipients: Vec<Option<BurnchainRecipient>>, None being an
\* output that was not recognised
RecipientLists ==
    {<<>>, <<None>>, <<None, Some(BurnchainRecipient(1))>>}
        \cup { <<Some(BurnchainRecipient(a))>> : a \in Amounts }

\* n bytes b
Bytes(n, b) == [i \in 1..n |-> b]

\* the version byte and the address of a payload
VersionAndAddress == <<1>> \o Bytes(20, 7)

\* "T_a", "Mår", "a€" and "a😀" (UTF-8 of two, three and four bytes), "1a", bytes that
\* are no UTF-8 (FF FF, an overlong form, a surrogate), and a name of 40 letters
ContractNames == {<<84, 95, 97>>, <<77, 195, 165, 114>>, <<97, 226, 130, 172>>,
                  <<97, 240, 159, 152, 128>>, <<49, 97>>, <<255, 255>>,
                  <<97, 224, 128, 128>>, <<97, 237, 160, 128>>, Bytes(40, 97)}

Memos == {<<>>, <<9, 0, 9>>}

\* BurnchainTransaction::data: short payloads, an address alone, an address followed by
\* the padded contract name and the memo, by a name without padding, and by a name
\* behind a zero byte
TxData ==
    {<<>>, <<1>> \o Bytes(19, 7), VersionAndAddress}
        \cup { VersionAndAddress \o Bytes(40, 0) \o memo : memo \in Memos }
        \cup { VersionAndAddress \o name \o Bytes(40 - Len(name), 0) \o memo :
                  name \in ContractNames, memo \in Memos }
        \cup { VersionAndAddress \o name : name \in ContractNames }
        \cup { VersionAndAddress \o <<0>> \o name \o Bytes(39 - Len(name), 0) :
                  name \in ContractNames \ {Bytes(40, 97)} }

BurnchainTransaction(opcode, recipients, data) ==
    [opcode |-> opcode, recipients |-> recipients, data |-> data, txid |-> "txid",
     vtxindex |-> 1]

BurnchainBlockHeader == [block_height |-> 1, block_hash |-> "block hash"]

\* slice::get(from..to), the indices counted from 0
get(data, from, to) ==
    IF from <= to /\ to <= Len(data) THEN Some(SubSeq(data, from + 1, to)) ELSE None

\* leading_non_zero_bytes, lines 128-145: the assertion of line 129 panics when from is
\* not below to; otherwise the Option the function returns
leading_non_zero_bytes(data, from, to) ==
    IF ~(from < to) THEN Panicked("assertion failed: from < to")
    ELSE
    LET end == IF to < Len(data) THEN to ELSE Len(data)
        zeros == { i \in from..(end - 1) : data[i + 1] = 0 }
        end_of_non_zero_slice ==
            IF zeros = {} THEN end ELSE CHOOSE i \in zeros : \A j \in zeros : i <= j
    IN  IF from = end_of_non_zero_slice THEN Ok(None)
        ELSE Ok(get(data, from, end_of_non_zero_slice))

\* a continuation byte of UTF-8 within lo..hi at position i
Continuation(bytes, i, lo, hi) == i <= Len(bytes) /\ bytes[i] >= lo /\ bytes[i] <= hi

\* std::str::from_utf8: whether the bytes from the i-th on are well-formed UTF-8: ASCII,
\* and sequences of two (C2..DF), three (E0..EF) and four bytes (F0..F4), without
\* overlong forms, surrogates and code points above U+10FFFF
RECURSIVE is_utf8(_, _)
is_utf8(bytes, i) ==
    IF i > Len(bytes) THEN TRUE
    ELSE IF bytes[i] < 128 THEN is_utf8(bytes, i + 1)
    ELSE IF bytes[i] >= 194 /\ bytes[i] <= 223
      THEN /\ Continuation(bytes, i + 1, 128, 191)
           /\ is_utf8(bytes, i + 2)
    ELSE IF bytes[i] >= 224 /\ bytes[i] <= 239
      THEN /\ Continuation(bytes, i + 1,
                           IF bytes[i] = 224 THEN 160 ELSE 128,
                           IF bytes[i] = 237 THEN 159 ELSE 191)
           /\ Continuation(bytes, i + 2, 128, 191)
           /\ is_utf8(bytes, i + 3)
    ELSE IF bytes[i] >= 240 /\ bytes[i] <= 244
      THEN /\ Continuation(bytes, i + 1,
                           IF bytes[i] = 240 THEN 144 ELSE 128,
                           IF bytes[i] = 244 THEN 143 ELSE 191)
           /\ Continuation(bytes, i + 2, 128, 191)
           /\ Continuation(bytes, i + 3, 128, 191)
           /\ is_utf8(bytes, i + 4)
    ELSE FALSE

from_utf8(bytes) == IF is_utf8(bytes, 1) THEN Ok(bytes) ELSE Err("Utf8Error", "")

IsLetter(b) == (b >= 65 /\ b <= 90) \/ (b >= 97 /\ b <= 122)
IsDigit(b) == b >= 48 /\ b <= 57

\* ContractName::try_from: a letter followed by letters, digits, - and _, 40 characters
\* at most
ContractNameTryFrom(name) ==
    IF /\ Len(name) >= 1 /\ Len(name) <= 40
       /\ IsLetter(name[1])
       /\ \A i \in 2..Len(name) : IsLetter(name[i]) \/ IsDigit(name[i]) \/ name[i] \in {45, 95}
      THEN Ok(name)
      ELSE Err("BadContractName", "")

StandardPrincipalData(version, address_data) ==
    [type |-> "standard", version |-> version, address |-> address_data, name |-> <<>>]

QualifiedContractIdentifier(issuer, name) ==
    [type |-> "contract", version |-> issuer.version, address |-> issuer.address,
     name |-> name]

\* parse_data, lines 69-110
parse_data(data) ==
    IF Len(data) < 21 THEN Err("MalformedData", "")
    ELSE LET version == data[1]
             address_data == get(data, 1, 21)
             standard_principal_data == StandardPrincipalData(version, address_data[1])
             memo == unwrap_or(get(data, 61, Len(data)), <<>>)
             leading == leading_non_zero_bytes(data, 21, 61)
             contract_bytes == leading.value
         IN  IF leading.kind = "panic" THEN leading
             ELSE IF contract_bytes = None
               THEN Ok([recipient |-> standard_principal_data, memo |-> memo])
             ELSE IF from_utf8(contract_bytes[1]).kind # "Ok" THEN Err("Utf8Error", "")
             ELSE IF ContractNameTryFrom(contract_bytes[1]).kind # "Ok"
               THEN Err("BadContractName", "")
             ELSE Ok([recipient |-> QualifiedContractIdentifier(standard_principal_data,
                                                                contract_bytes[1]),
                      memo |-> memo])

\* a from_tx that would parse the payload before it looks at the recipients
from_tx_PayloadFirst(block_header, tx) ==
    IF tx.opcode # "PegIn" THEN Err("InvalidInput", "")
    ELSE LET parsed_data == parse_data(tx.data)
         IN  IF parsed_data.kind = "panic" THEN parsed_data
             ELSE IF parsed_data.kind # "Ok" THEN Err("ParseError", "")
             ELSE IF tx.recipients = <<>> \/ tx.recipients[1] = None
               THEN Err("InvalidInput", "")
             ELSE Ok([recipient |-> parsed_data.value.recipient,
                      peg_wallet_address |-> tx.recipients[1][1].address,
                      amount |-> tx.recipients[1][1].amount,
                      memo |-> parsed_data.value.memo,
                      txid |-> tx.txid,
                      vtxindex |-> tx.vtxindex,
                      block_height |-> block_header.block_height,
                      burn_header_hash |-> block_header.block_hash])

\* PegInOp::from_tx, lines 33-67
from_tx(block_header, tx) ==
    IF tx.opcode # "PegIn" THEN Err("InvalidInput", "")
    ELSE IF tx.recipients = <<>> \/ tx.recipients[1] = None THEN Err("InvalidInput", "")
    ELSE LET parsed_data == parse_data(tx.data)
         IN  IF parsed_data.kind = "panic" THEN parsed_data
             ELSE IF parsed_data.kind # "Ok" THEN Err("ParseError", "")
             ELSE Ok([recipient |-> parsed_data.value.recipient,
                      peg_wallet_address |-> tx.recipients[1][1].address,
                      amount |-> tx.recipients[1][1].amount,
                      memo |-> parsed_data.value.memo,
                      txid |-> tx.txid,
                      vtxindex |-> tx.vtxindex,
                      block_height |-> block_header.block_height,
                      burn_header_hash |-> block_header.block_hash])

\* PegInOp::check, lines 112-119
check(op) ==
    IF op.amount = 0 THEN Err("AmountMustBePositive", "") ELSE Ok(<<>>)

NoTx == [opcode |-> "none", recipients |-> <<>>, data |-> <<>>, txid |-> "", vtxindex |-> 0]

PegInit ==
    /\ peg_tx = NoTx
    /\ peg_result = NoResult
    /\ peg_check = NoResult

\* PegInOp::from_tx is called on a transaction of the burnchain
FromTx ==
    /\ peg_tx = NoTx
    /\ \E opcode \in TxOpcodes, recipients \in RecipientLists, data \in TxData :
        /\ peg_tx' = BurnchainTransaction(opcode, recipients, data)
        /\ peg_result' = from_tx(BurnchainBlockHeader, peg_tx')
    /\ UNCHANGED peg_check
    /\ UNCHANGED <<dbvars, evvars, rdvars, rpcvars, clvars, ssvars, vmvars>>

\* check is called on the operation from_tx returned
Check ==
    /\ peg_result.kind = "Ok"
    /\ peg_check = NoResult
    /\ peg_check' = check(peg_result.value)
    /\ UNCHANGED <<peg_tx, peg_result>>
    /\ UNCHANGED <<dbvars, evvars, rdvars, rpcvars, clvars, ssvars, vmvars>>

PegStep == FromTx \/ Check

----------------------------------------------------------------------------
\* Specifications

DBNext == DBStep(MaxCalls, ConflictCap)

\* several calls of one StackerDB client
Init == DBInit /\ EvInit /\ RdInit /\ RpcInit /\ ClInit /\ SsInit /\ VmInit /\ PegInit

Spec == Init /\ [][DBNext]_vars

\* one call that is followed through IncrementLimit version conflicts and more
LongNext == DBStep(1, IncrementLimit + 1)

LongSpec == Init /\ [][LongNext]_vars

EventNext == EvStep

\* the StackerDB client is not used
EventInit == DBInitWith({0}) /\ EvInit /\ RdInit /\ RpcInit /\ ClInit /\ SsInit /\ VmInit /\ PegInit

\* the event receiver with its signaler, the node and the consumers
EventSpec == EventInit /\ [][EventNext]_vars

ReadNext == RdStep

\* reads of the peers' transactions slots, the peers writing them
ReadSpec == EventInit /\ [][ReadNext]_vars

RpcNext == RpcStep

\* the operations of the node RPC client, the node answering or being out of reach
RpcSpec == EventInit /\ [][RpcNext]_vars

ClientNext == ClStep

\* one operation of the node RPC client on the answers of the node (the operations keep
\* no state from one call to the next), and the signers electing the coordinator from
\* the registered signers' info
ClientSpec == EventInit /\ [][ClientNext]_vars

SessionNext == SsStep

PegNext == PegStep

\* PegInOp::from_tx on one transaction, and check on the operation it gives
PegSpec == EventInit /\ [][PegNext]_vars

VmNext == VmStep

\* one evaluation of (or ...) or of (and ...), on any arguments
VmSpec == EventInit /\ [][VmNext]_vars

FrameNext ==
    \/ SendMessageOfKind
    \/ SignFails
    \/ PutResponseLost
    \/ \E reached \in BOOLEAN : PutTimesOut(reached)
    \/ PutAnsweredByStore(ConflictCap)
    \/ PutRejectedOther(ConflictCap)
    \/ PutRejectedNoReason(ConflictCap)
    \/ ReadBetweenCalls

FrameInit == DBInitFor(FrameKinds, {0}) /\ EvInit /\ RdInit /\ RpcInit /\ ClInit /\ SsInit /\ VmInit /\ PegInit

\* a StackerDB client that sends messages of two kinds and reads the transactions of its
\* peers
FrameSpec == FrameInit /\ [][FrameNext]_vars

\* a StackerDB client's sessions and its reads of transactions
SessionSpec == EventInit /\ [][SessionNext]_vars

\* the same, the receiver's and the signaler's threads being scheduled fairly; the node
\* and the consumers owe nothing
EventFairSpec ==
    /\ EventSpec
    /\ WF_vars(ReceiverStep)
    /\ WF_vars(SignalerStep)
    /\ WF_vars(StartMainLoop)

----------------------------------------------------------------------------
\* Properties of send_message_with_retry

Finished == send_pc = "idle" /\ calls > 0

ErrResults == {"FailToSign", "RetryTimeout", "PutChunkRejected", "NotConnected"}

\* the cache entry of (m, s), -1 when there is none
Cached(versions, m, s) ==
    IF m \in DOMAIN versions /\ s \in DOMAIN versions[m] THEN versions[m][s] ELSE -1

\* C1: for every message kind, each version the store accepted from this client is the
\* previously accepted version + 1
C1_AcceptedVersionsConsecutive ==
    \A m \in MsgIds : \A i \in 2..Len(accepted_versions[m]) :
        accepted_versions[m][i] = accepted_versions[m][i - 1] + 1

\* C2 as stated: after a put of version v rejected as already existing, the next put of
\* the call has the same slot and payload and version exactly v + 1
C2_NextPutIsVersionPlusOne ==
    (prev_put.answer = "conflict") =>
        /\ last_put.slot_id = prev_put.slot_id
        /\ last_put.data = prev_put.data
        /\ last_put.version = prev_put.version + 1

\* C2 amended: the next put has the same slot and payload and version v + 1, except
\* that at the maximum version the same version v is put again
C2_NextPutIsSaturatingPlusOne ==
    (prev_put.answer = "conflict") =>
        /\ last_put.slot_id = prev_put.slot_id
        /\ last_put.data = prev_put.data
        /\ last_put.version = (IF prev_put.version = U32_MAX THEN U32_MAX
                               ELSE prev_put.version + 1)

\* C2 witness: a conflict at a version below the maximum was followed by another put
C2_Witness ==
    /\ prev_put.answer = "conflict"
    /\ prev_put.version = 5
    /\ last_put.version = 6

\* C3: a call that returned Ok had exactly one of its chunks accepted by the store, and a
\* call that returned an error had none
C3_RetryIdempotence ==
    /\ (Finished /\ result = "Ok") => n_accepted = 1
    /\ (Finished /\ result \in ErrResults) => n_accepted = 0

\* C4: every chunk put carries a version >= 1
C4_PutVersionAtLeastOne ==
    (last_put.answer # "unanswered") => last_put.version >= 1

\* C5: an accepted=false ack that is not the already-exists conflict (another reason, or
\* no reason at all) ends the call with PutChunkRejected
C5_OtherRejectionEndsCall ==
    (last_put.answer \in {"other", "none"}) =>
        (send_pc = "idle" /\ result = "PutChunkRejected")

\* C6: a call that ends with PutChunkRejected or RetryTimeout leaves the slot-version
\* cache as it was before the call
C6_FailedCallLeavesCache ==
    (Finished /\ result \in {"PutChunkRejected", "RetryTimeout"}) =>
        slot_versions = start_versions

\* C7: a call that has been answered IncrementLimit version conflicts has returned
\* NotConnected
C7_ConflictsAreBounded ==
    (n_exists >= IncrementLimit) => (send_pc = "idle" /\ result = "NotConnected")

\* a call returned Ok that started with the cache saying version 1 (no entry, or an entry
\* of 1) at a slot where the store held version V >= 1, every answer having come from the
\* store's version rule
C8_Reconciled ==
    /\ Finished /\ result = "Ok"
    /\ by_version_rule
    /\ start_stored >= 1
    /\ Cached(start_versions, msg_id, signer_slot_id) \in {-1, 1}

\* C8: such a call ends with the cache at V + 1
C8_CacheEndsAtStoredPlusOne ==
    C8_Reconciled => Cached(slot_versions, msg_id, signer_slot_id) = start_stored + 1

----------------------------------------------------------------------------
\* Properties of the event receiver

\* C9: once send has completed, a running main_loop eventually returns
C9_StopEventuallyReturns ==
    [](sig_pc = "done" => <>(rx_pc = "exit"))

\* C9 failing state: send has completed without a wake-up request and the receiver is
\* blocked in recv
C9_BlockedAfterStop ==
    sig_pc = "done" /\ rx_pc = "recv" /\ requests = <<>> /\ stop_signal

\* C10 as stated: no event is forwarded to a consumer once the stop flag is set
C10_NoForwardAfterStop ==
    \A c \in Consumers : \A i \in 1..Len(delivered[c]) : ~delivered[c][i].stopped

\* C10 amended: no event is forwarded whose request next_event took up after the stop flag
\* was set, and at most one event (one that next_event had already taken) is forwarded to
\* a consumer after the flag is set
C10_NoEventTakenAfterStop ==
    \A c \in Consumers :
        /\ \A i \in 1..Len(delivered[c]) : ~delivered[c][i].taken_stopped
        /\ Cardinality({i \in 1..Len(delivered[c]) : delivered[c][i].stopped}) <= 1

\* C10 witness: the flag was set while an event was waiting to be forwarded, and the
\* event reached a consumer
C10_Witness ==
    /\ stop_signal
    /\ \E c \in Consumers : \E i \in 1..Len(delivered[c]) : delivered[c][i].stopped

----------------------------------------------------------------------------
\* Properties of get_transactions

\* the transactions a chunk contributes: those of a present chunk that decodes to a
\* Transactions message, none otherwise
ChunkTransactions(chunk) ==
    IF chunk.some /\ chunk.message.ok /\ chunk.message.variant = "Transactions"
      THEN chunk.message.txs
      ELSE <<>>

\* the concatenation of the sequences of a sequence
RECURSIVE Concatenation(_)
Concatenation(seqs) ==
    IF seqs = <<>> THEN <<>> ELSE Head(seqs) \o Concatenation(Tail(seqs))

\* C11: a get_transactions call that was answered (with no more chunks than signer ids
\* asked for) returns Ok with exactly the concatenation, in the order of the answer, of
\* the transactions of the chunks that are present and decode to a Transactions message;
\* the other chunks contribute nothing and cause no error
C11_TransactionsConcatenated ==
    (rd_result.kind \notin {"none", "RetryTimeout"} /\ Len(rd_chunks) <= Len(rd_ids)) =>
        /\ rd_result.kind = "Ok"
        /\ rd_result.transactions =
              Concatenation([i \in 1..Len(rd_chunks) |-> ChunkTransactions(rd_chunks[i])])

\* C11 witness: a call for the slots 1, 0 was answered a chunk that is no message and
\* then a chunk of transactions, and returned them
C11_Witness ==
    /\ rd_ids = <<1, 0>>
    /\ Len(rd_chunks) = 2
    /\ rd_chunks[1] = SomeChunk(FALSE, NoMessage)
    /\ rd_chunks[2] = SomeChunk(FALSE, TransactionsMessage(<<"tx2", "tx1">>))
    /\ rd_result = [kind |-> "Ok", transactions |-> <<"tx2", "tx1">>]

\* C12: the versions of the chunks of a peer's slot whose content the reads returned
\* increase strictly from one read to the next
C12_PeerVersionsIncrease ==
    \A s \in PeerSlots : \A i \in 2..Len(returned_versions[s]) :
        returned_versions[s][i] > returned_versions[s][i - 1]

\* the consumers registered with add_consumer
Registered == { out_channels[i] : i \in 1..Len(out_channels) }

\* the events a consumer has received, in order
EventsOf(c) == [i \in 1..Len(delivered[c]) |-> delivered[c][i].event]

\* the events forward_event has returned for, in order (while it runs, all the events
\* next_event returned but the last)
Forwarded ==
    IF rx_pc = "forward" THEN SubSeq(taken_events, 1, Len(taken_events) - 1) ELSE taken_events

IsPrefix(a, b) == Len(a) <= Len(b) /\ a = SubSeq(b, 1, Len(a))

\* C13 as stated: every registered consumer has received exactly the events forwarded,
\* one copy of each
C13_EveryConsumerGetsEveryEvent ==
    rx_pc # "forward" => \A c \in Registered : EventsOf(c) = taken_events

\* C13 amended: a registered consumer receives the forwarded events in order, none twice
\* and none skipped; while no send has failed every registered consumer has received all
\* of them; the forward that fails is the last one, and it may leave out the consumers
\* from the failing one on
C13_DeliveredOnceWhileSendsSucceed ==
    /\ \A c \in Registered : IsPrefix(EventsOf(c), taken_events)
    /\ \A c \in Registered : IsPrefix(Forwarded, EventsOf(c)) \/ fail_recv # -1
    /\ (fail_recv = -1 /\ rx_pc # "forward") =>
          \A c \in Registered : EventsOf(c) = taken_events
    /\ \A c \in Registered : Len(EventsOf(c)) >= Len(taken_events) - 1
    /\ \A i, j \in 1..Len(out_channels) :
          i < j => Len(EventsOf(out_channels[i])) >= Len(EventsOf(out_channels[j]))

\* C13 witness: two consumers are registered and each has received two events
C13_Witness ==
    /\ Len(out_channels) = 2
    /\ fail_recv = -1
    /\ \A c \in Registered : Len(delivered[c]) = 2

\* C14: once forward_event has failed (no consumer registered, or a send failed),
\* main_loop has exited and recv has returned no further request
C14_ForwardFailureEndsLoop ==
    (fail_recv # -1) => (rx_pc = "exit" /\ n_recv = fail_recv)

\* C14 witness: a send to a registered consumer failed while a request was waiting
C14_Witness ==
    /\ fail_recv # -1
    /\ out_channels # <<>>
    /\ requests # <<>>
    /\ rx_pc = "exit"

\* C15: a POST to another path handled while the receiver is not stopped is answered 200,
\* gives UnrecognizedEvent, leaves no event to forward and main_loop goes on at the top
C15_UnknownPathAnswered200 ==
    (/\ handled.request # NoRequest
     /\ ~handled.stopped
     /\ handled.request.method = "POST"
     /\ handled.request.url # "/stackerdb_chunks") =>
        /\ handled.response = "200"
        /\ handled.result = "UnrecognizedEvent"
        /\ handled.event = "None"
        /\ handled.next_pc = "top"

\* C15 witness: a POST to /new_block was handled and main_loop waits for the next request
C15_Witness ==
    /\ handled.request.url = "/new_block"
    /\ handled.response = "200"
    /\ rx_pc = "recv"

\* C16: a request whose method is not POST, handled while the receiver is not stopped, is
\* answered 200, leaves no event to forward and main_loop goes on at the top
C16_NonPostAnswered200 ==
    (/\ handled.request # NoRequest
     /\ ~handled.stopped
     /\ handled.request.method # "POST") =>
        /\ handled.response = "200"
        /\ handled.event = "None"
        /\ handled.next_pc = "top"

\* C17: before bind, get_stop_signaler and next_event give NotBound; after a successful
\* bind, get_stop_signaler gives a signaler that holds the receiver's stop flag and the
\* address the server listens on
C17_SignalerTargetsBoundAddress ==
    /\ (bind_result # "Ok" /\ signaler.result # "none") => signaler.result = "NotBound"
    /\ (bind_result # "Ok" /\ handled.result # "none") => handled.result = "NotBound"
    /\ (bind_result = "Ok" /\ signaler.result # "none") =>
          /\ signaler.result = "Ok"
          /\ signaler.stop_signal = "receiver"
          /\ signaler.local_addr = bound_addr

\* C18: a bind whose listener cannot be started returns NotBound, the thread goes on and
\* the receiver is unbound
C18_BindFailureIsNotBound ==
    (bind_result \notin {"none", "Ok"}) =>
        /\ bind_result = "NotBound"
        /\ rx_pc # "panicked"
        /\ http_server = "None"

----------------------------------------------------------------------------
\* Properties of the node RPC client

\* the operation received a response that is not 2xx
Non2xxReceived == \E i \in 1..Len(rpc_responses) : ~is_success(rpc_responses[i])

\* C19 as stated: an operation that received a non-2xx response has ended with
\* RequestFailure(status) of that response, and exactly one request was sent
C19_Non2xxEndsOperation ==
    Non2xxReceived =>
        /\ rpc_pc = "idle"
        /\ rpc_attempts = 1
        /\ rpc_result.kind = "Err"
        /\ rpc_result.error = "RequestFailure"
        /\ rpc_result.detail = ToString(rpc_responses[Len(rpc_responses)])

\* C19 amended: an operation that received a non-2xx response has ended with it: that
\* response is the last one, the request it answers was not sent again and no request
\* followed it, whatever was sent before it (requests that failed in transport, the
\* first request of an operation that sends two). The operation returned
\* RequestFailure(status) of that response, except get_registered_signers_info when the
\* response answers its lookup of the signer slots: it panicked
C19_Non2xxIsNotRetried ==
    Non2xxReceived =>
        LET n == Len(rpc_responses)
        IN  /\ rpc_pc = "idle"
            /\ \A i \in 1..(n - 1) : is_success(rpc_responses[i])
            /\ rpc_attempts >= n
            /\ IF rpc_op = "get_registered_signers_info" /\ rpc_first.kind # "none"
               THEN rpc_result.kind = "panic"
               ELSE /\ rpc_result.kind = "Err"
                    /\ rpc_result.error = "RequestFailure"
                    /\ rpc_result.detail = ToString(rpc_responses[n])

\* C19 witness: get_node_epoch ended with RequestFailure(404), the answer to its second
\* request, after three requests of which one failed in transport
C19_Witness ==
    /\ rpc_op = "get_node_epoch"
    /\ rpc_pc = "idle"
    /\ rpc_responses = <<200, 404>>
    /\ rpc_attempts = 3
    /\ rpc_result.error = "RequestFailure"
    /\ rpc_result.detail = "404"

\* C20: an operation that ended without any response of the node (the node could not be
\* reached) ended with RetryTimeout, after more than one request
C20_UnreachableEndsInRetryTimeout ==
    (rpc_pc = "idle" /\ rpc_calls > 0 /\ rpc_responses = <<>>) =>
        /\ rpc_result.kind = "Err"
        /\ rpc_result.error = "RetryTimeout"
        /\ rpc_attempts > 1

----------------------------------------------------------------------------
\* Properties of the node RPC client's operations

\* the call of read_only_contract_call that got a 2xx response holding a CallReadOnlyResponse
ReadOnlyAnswered ==
    /\ client_call.op = "read_only_contract_call"
    /\ client_call.args_serialize
    /\ client_call.response.sent
    /\ is_success(client_call.response.status)
    /\ client_call.response.body.json

\* C21: on a 2xx response, okay=true yields the Clarity value decoded from the result
\* field, and okay=false yields no value but ReadOnlyFailure("<function>: <cause>"), the
\* cause being "unknown" when the response has none
C21_ReadOnlyResponseMapping ==
    ReadOnlyAnswered =>
        LET body == client_call.response.body
        IN  /\ (body.okay /\ body.result # None
                    /\ try_deserialize_hex_untyped(body.result[1]).kind = "Ok") =>
                client_result = Ok(try_deserialize_hex_untyped(body.result[1]).value)
            /\ ~body.okay =>
                /\ client_result.kind = "Err"
                /\ client_result.error = "ReadOnlyFailure"
                /\ body.cause # None =>
                    client_result.detail = client_call.function_name \o ": " \o body.cause[1]
                /\ body.cause = None =>
                    client_result.detail = client_call.function_name \o ": unknown"

\* a response with okay=false, no cause and a result that decodes was mapped
C21_Witness ==
    /\ ReadOnlyAnswered
    /\ ~client_call.response.body.okay
    /\ client_call.response.body.cause = None
    /\ client_call.response.body.result = Some("0x010000000000000000000000000000000a")
    /\ client_result.detail = "function-name: unknown"

\* the call of get_node_epoch whose two requests were answered
NodeEpochAnswered ==
    /\ client_call.op = "get_node_epoch"
    /\ client_call.pox_info.kind = "Ok"
    /\ client_call.burn_block_height.kind = "Ok"

\* the entry at position i is the one the pox response holds for that epoch
IsEntryOf(epochs, i, epoch_id) ==
    /\ epochs[i].epoch_id = epoch_id
    /\ \A j \in 1..(i - 1) : epochs[j].epoch_id # epoch_id

\* C22 as stated: for a pox response holding an Epoch25 entry starting at a and an Epoch30
\* entry starting at b and a burn height h, get_node_epoch returns Epoch24 when h < a,
\* Epoch25 when a <= h < b and Epoch30 when h >= b
C22_EpochSelection ==
    NodeEpochAnswered =>
        LET epochs == client_call.pox_info.value.epochs
            h == client_call.burn_block_height.value
        IN  \A i, j \in 1..Len(epochs) :
                (IsEntryOf(epochs, i, "Epoch25") /\ IsEntryOf(epochs, j, "Epoch30")) =>
                    LET a == epochs[i].start_height
                        b == epochs[j].start_height
                    IN  /\ client_result.kind = "Ok"
                        /\ h < a => client_result.value = "Epoch24"
                        /\ (a <= h /\ h < b) => client_result.value = "Epoch25"
                        /\ h >= b => client_result.value = "Epoch30"

\* C22 amended: Epoch24 when h < a, Epoch25 when a <= h < b, and Epoch30 when h >= b and
\* h >= a: below a the answer is Epoch24 also where the Epoch30 entry starts before a
C22_EpochSelectionFromEpoch25 ==
    NodeEpochAnswered =>
        LET epochs == client_call.pox_info.value.epochs
            h == client_call.burn_block_height.value
        IN  \A i, j \in 1..Len(epochs) :
                (IsEntryOf(epochs, i, "Epoch25") /\ IsEntryOf(epochs, j, "Epoch30")) =>
                    LET a == epochs[i].start_height
                        b == epochs[j].start_height
                    IN  /\ client_result.kind = "Ok"
                        /\ h < a => client_result.value = "Epoch24"
                        /\ (a <= h /\ h < b) => client_result.value = "Epoch25"
                        /\ (h >= b /\ h >= a) => client_result.value = "Epoch30"

\* C22 witness: the Epoch30 entry starts before the Epoch25 entry and comes first in the
\* list; a burn height between the two start heights was answered Epoch24, the height at
\* which the Epoch25 entry starts would be answered Epoch30
C22_Witness ==
    /\ NodeEpochAnswered
    /\ Len(client_call.pox_info.value.epochs) = 2
    /\ client_call.pox_info.value.epochs[1].epoch_id = "Epoch30"
    /\ client_call.pox_info.value.epochs[2].epoch_id = "Epoch25"
    /\ client_call.pox_info.value.epochs[1].start_height = 1
    /\ client_call.pox_info.value.epochs[2].start_height = 2
    /\ client_call.burn_block_height.value = 1
    /\ client_result.kind = "Ok"
    /\ client_result.value = "Epoch24"

\* C23: for every pox response, get_current_reward_cycle returns the integer quotient of
\* (current - first) by (reward_phase_len + prepare_phase_len)
C23_RewardCycleIsQuotient ==
    (client_call.op = "get_current_reward_cycle" /\ client_call.pox_data.kind = "Ok") =>
        LET pox == client_call.pox_data.value
            blocks == pox.current_burnchain_block_height - pox.first_burnchain_block_height
            len == pox.reward_phase_block_length + pox.prepare_phase_block_length
        IN  /\ client_result.kind = "Ok"
            /\ client_result.value * len <= blocks
            /\ blocks < (client_result.value + 1) * len

\* the call of get_registered_signers_info that returned Some(info)
InfoReturned == client_call.op = "get_registered_signers_info" /\ IsInfo(client_result)

\* the sum of the weights of the entries before position i
RECURSIVE WeightBefore(_, _)
WeightBefore(entries, i) ==
    IF i <= 1 THEN 0 ELSE WeightBefore(entries, i - 1) + entries[i - 1].weight

\* the key ids info gives to a signer id
KeyIdsOf(info, signer_id) ==
    IF signer_id \in DOMAIN info.coordinator_key_ids
    THEN info.coordinator_key_ids[signer_id] ELSE {}

\* C24: the signer at position i of the reward set (counted from 0) gets the signer id i
\* and the key ids [weight_start, weight_end): the first range starts at 1, each range
\* starts where the one before ended and has the size of the signer's weight, the ranges
\* are disjoint, and every key id maps to the public key of the signer it belongs to.
\* It fails where the u32 addition of the weights wraps
C24_KeyIdRanges ==
    InfoReturned =>
        LET info == client_result.value[1]
            entries == client_call.reward_set.value.signers[1]
            weight_start(i) == 1 + WeightBefore(entries, i)
            weight_end(i) == 1 + WeightBefore(entries, i + 1)
        IN  /\ \A i \in 1..Len(entries) :
                /\ info.signer_ids[<<"address", entries[i].signing_key>>] = i - 1
                /\ info.signer_public_keys[i - 1] = <<"point", entries[i].signing_key>>
                /\ KeyIdsOf(info, i - 1) = weight_start(i)..(weight_end(i) - 1)
                /\ Cardinality(KeyIdsOf(info, i - 1)) = entries[i].weight
                /\ entries[i].weight > 0 =>
                    /\ info.signer_key_ids[i - 1] =
                            [k \in 1..entries[i].weight |-> weight_start(i) + k - 1]
                    /\ info.public_keys.signers[i - 1] = <<"ecdsa", entries[i].signing_key>>
                /\ \A k \in KeyIdsOf(info, i - 1) :
                        info.public_keys.key_ids[k] = <<"ecdsa", entries[i].signing_key>>
            /\ \A i, j \in 1..Len(entries) :
                    i # j => KeyIdsOf(info, i - 1) \cap KeyIdsOf(info, j - 1) = {}
            /\ DOMAIN info.public_keys.key_ids = 1..WeightBefore(entries, Len(entries) + 1)

\* the call of get_registered_signers_info that got a reward set with signers
RewardSetAnswered ==
    /\ client_call.op = "get_registered_signers_info"
    /\ client_call.reward_set.kind = "Ok"
    /\ client_call.reward_set.value.signers # None
    /\ client_call.reward_set.value.signers[1] # <<>>

\* the positions of the reward set whose signing key does not decode
Undecodable ==
    {i \in 1..Len(client_call.reward_set.value.signers[1]) :
        client_call.reward_set.value.signers[1][i].signing_key \notin ValidSigningKeys}

\* C25: a reward set with an undecodable signing key at any position is rejected as a
\* whole with CorruptedRewardSet: no info, not even of the entries before it, is returned.
\* It fails where the addition of the weights of the entries before it panics
C25_CorruptedRewardSetRejected ==
    (RewardSetAnswered /\ Undecodable # {}) =>
        /\ client_result.kind = "Err"
        /\ client_result.error = "CorruptedRewardSet"
        /\ client_result.value = None

\* the signers contract answered a list of slots for the page asked
SlotsListed ==
    /\ client_call.slots_answer.kind = "Ok"
    /\ client_call.slots_answer.value.type = "Response"
    /\ client_call.slots_answer.value.n = 1
    /\ client_call.slots_answer.value.items[1].type = "List"

\* the signer of that entry has no slot in the list answered
HasNoSlot(entry) ==
    LET slots == client_call.slots_answer.value.items[1].items
    IN  \A i \in 1..Len(slots) :
            slots[i] # SlotTuple(StandardPrincipal(entry.signing_key))

\* C26: Some(info) is returned only when every signer of the reward set has a slot in
\* the page reward_cycle mod 2 of the slot store, every address of info.signer_ids having
\* a slot id in info.signer_slot_ids; None is returned when the reward set has no signers
\* or one of its signers has no slot
C26_SomeOnlyWhenAllRegistered ==
    client_call.op = "get_registered_signers_info" =>
        /\ IsInfo(client_result) =>
            /\ client_call.page = client_call.reward_cycle % 2
            /\ \A a \in DOMAIN client_result.value[1].signer_ids :
                    a \in DOMAIN client_result.value[1].signer_slot_ids
        /\ (/\ client_call.reward_set.kind = "Ok"
            /\ \/ client_call.reward_set.value.signers = None
               \/ client_call.reward_set.value.signers = Some(<<>>)) =>
                /\ client_result.kind = "Ok"
                /\ client_result.value = None
        /\ (/\ RewardSetAnswered
            /\ Undecodable = {}
            /\ SlotsListed
            /\ \E i \in 1..Len(client_call.reward_set.value.signers[1]) :
                    HasNoSlot(client_call.reward_set.value.signers[1][i])) =>
                /\ client_result.kind = "Ok"
                /\ client_result.value = None

\* C27: no operation of the client panics or ends the process on what the node answers:
\* a failed lookup of the signer slots, a list of slots holding a contract principal and
\* a batched read answered with more chunks than were asked for all give an error value
\* or a skipped entry
C27_NoOperationPanics ==
    /\ client_call.op = "get_registered_signers_info" =>
            client_result.kind \notin {"panic", "abort"}
    /\ rd_result.kind # "panic"

----------------------------------------------------------------------------
\* Properties of the StackerDB sessions

\* the session of the contract of a cycle and a message kind
ContractOf(cycle, kind) == StackerDBSession(make_signers_db_name(cycle, kind))

\* StackerDB::new has opened one session per message kind 0..12, each bound to the
\* contract of (C, kind)
OneSessionPerKind ==
    /\ DOMAIN signers_message_stackerdb_sessions = 0..12
    /\ \A k \in 0..12 :
            signers_message_stackerdb_sessions[k] = ContractOf(reward_cycle, k)
    /\ \A k, l \in 0..12 :
            k # l => signers_message_stackerdb_sessions[k]
                        # signers_message_stackerdb_sessions[l]

\* every get_next_transactions_with_retry has read from the Transactions session of the
\* cycle `next`, every get_current_transactions_with_retry from that of cycle C
ReadsFrom(next) ==
    \A i \in 1..Len(session_reads) :
        /\ session_reads[i].op = "get_next_transactions_with_retry" =>
                session_reads[i].session = ContractOf(next, TRANSACTIONS_MSG_ID)
        /\ session_reads[i].op = "get_current_transactions_with_retry" =>
                session_reads[i].session = ContractOf(reward_cycle, TRANSACTIONS_MSG_ID)

\* C28 as stated: StackerDB::new for cycle C opens exactly one session per message kind
\* 0..12, bound to the contract of (C, kind), and one session bound to the Transactions
\* contract of cycle C+1; get_next_transactions_with_retry reads only from the latter,
\* get_current_transactions_with_retry only from the Transactions session of cycle C
C28_SessionsPerKindAndNextCycle ==
    reward_cycle >= 0 =>
        /\ OneSessionPerKind
        /\ next_transaction_session = ContractOf(reward_cycle + 1, TRANSACTIONS_MSG_ID)
        /\ ReadsFrom(reward_cycle + 1)

\* C28 amended: the additional session is bound to the Transactions contract of cycle
\* C+1, and to that of cycle 0 when C is the largest cycle (wrapping_add)
C28_SessionsPerKindAndWrappedNextCycle ==
    reward_cycle >= 0 =>
        LET next == IF reward_cycle = 2^CycleBits - 1 THEN 0 ELSE reward_cycle + 1
        IN  /\ OneSessionPerKind
            /\ next_transaction_session = ContractOf(next, TRANSACTIONS_MSG_ID)
            /\ ReadsFrom(next)

\* the client of the largest cycle has read the next transactions, which the node
\* answered, then the current ones, which it did not
C28_Witness ==
    /\ reward_cycle = 2^CycleBits - 1
    /\ Len(session_reads) = 2
    /\ session_reads[1].op = "get_next_transactions_with_retry"
    /\ session_reads[1].session.name = "signers-0-11"
    /\ session_reads[1].result = "Ok"
    /\ session_reads[2].op = "get_current_transactions_with_retry"
    /\ session_reads[2].session.name = "signers-7-11"
    /\ session_reads[2].result = "RetryTimeout"

----------------------------------------------------------------------------
\* Properties of the coordinator election

\* the signers that consider themselves coordinator: their own signer id is the
\* coordinator id they computed
Coordinators ==
    {a \in DOMAIN coordinator_ids : client_result.value[1].signer_ids[a] = coordinator_ids[a]}

\* C30: whatever the cycle and the last vote round, the signers of the cycle compute the
\* same coordinator id, the round seed modulo the number of signers (seed 0 when no
\* round has completed), and exactly one of them considers itself coordinator
C30_CoordinatorUnique ==
    InfoReturned =>
        LET signer_ids == client_result.value[1].signer_ids
            seed == IF last_round = None THEN 0 ELSE last_round[1]
        IN  /\ \A a \in DOMAIN coordinator_ids :
                    coordinator_ids[a] = seed % Cardinality(DOMAIN signer_ids)
            /\ \A a, b \in DOMAIN coordinator_ids : coordinator_ids[a] = coordinator_ids[b]
            /\ DOMAIN coordinator_ids = DOMAIN signer_ids => Cardinality(Coordinators) = 1

\* C31: main_loop never spins: every iteration that does not exit the loop goes on to
\* block in recv (and from there forwards an event or comes back after a request was
\* taken); no iteration comes back to the top of the loop without having blocked
C31_NoSpin ==
    [][LoopTop => rx_pc' \in {"recv", "exit"}]_vars

\* a request handled while the receiver is not stopped that is a POST to /stackerdb_chunks
IsChunksPost(h) ==
    /\ h.request # NoRequest
    /\ ~h.stopped
    /\ h.request.method = "POST"
    /\ h.request.url = "/stackerdb_chunks"

\* C32: a POST to /stackerdb_chunks whose body does not decode is recoverable: next_event
\* returns the Deserialize error, no event is kept or forwarded and main_loop goes back to
\* the top of the loop; a valid event handled right after it is taken and, once
\* forward_event has run, is the last event of every consumer reached by the sends
C32_UndecodableBodyRecoverable ==
    /\ (IsChunksPost(handled) /\ Deserialize(handled.request.body) = "Err") =>
          /\ handled.result = "Deserialize"
          /\ handled.event = "None"
          /\ handled.next_pc = "top"
          /\ rx_pc # "forward"
    /\ \A i \in 1..Len(taken_events) : taken_events[i] \in Events
    /\ \A c \in Consumers : \A i \in 1..Len(delivered[c]) : delivered[c][i].event \in Events
    /\ (/\ handled.after_undecodable
        /\ IsChunksPost(handled)
        /\ Deserialize(handled.request.body) # "Err") =>
          /\ handled.result = "Ok"
          /\ handled.event = Deserialize(handled.request.body)
          /\ taken_events # <<>>
          /\ taken_events[Len(taken_events)] = handled.event
          /\ rx_pc # "forward" =>
                \A i \in 1..Len(out_channels) :
                    (\A j \in 1..i : channel_open[out_channels[j]]) =>
                        /\ delivered[out_channels[i]] # <<>>
                        /\ delivered[out_channels[i]][Len(delivered[out_channels[i]])].event
                              = handled.event

\* C32 witness: an undecodable body was handled, the valid event posted after it was taken
\* and forwarded to two consumers, and main_loop waits for the next request
C32_Witness ==
    /\ handled.after_undecodable
    /\ handled.result = "Ok"
    /\ rx_pc = "recv"
    /\ Len(out_channels) = 2
    /\ \A c \in Consumers : Len(delivered[c]) = 1 /\ delivered[c][1].event = handled.event

\* C33: each consumer receives the events in the order next_event returned them, so any
\* two consumers see the events they both received in the same order, and they have
\* received the same sequence as long as no send has failed
C33_ConsumersSeeAcceptedOrder ==
    /\ \A c \in Consumers : IsPrefix(EventsOf(c), taken_events)
    /\ \A c, d \in Consumers :
          IsPrefix(EventsOf(c), EventsOf(d)) \/ IsPrefix(EventsOf(d), EventsOf(c))
    /\ (fail_recv = -1 /\ rx_pc # "forward") =>
          \A c, d \in Registered : EventsOf(c) = EventsOf(d)
    /\ (rx_pc = "forward") =>
          \A i \in 1..Len(out_channels) :
              EventsOf(out_channels[i]) =
                  IF i <= send_i THEN taken_events ELSE Forwarded

\* C33 witness: ev1 was accepted before ev2; the first consumer has received both in that
\* order, the second one only ev1 because the send of ev2 to it failed
C33_Witness ==
    /\ Len(out_channels) = 2
    /\ taken_events = <<"ev1", "ev2">>
    /\ EventsOf(out_channels[1]) = <<"ev1", "ev2">>
    /\ EventsOf(out_channels[2]) = <<"ev1">>
    /\ fail_recv # -1

\* C34: no step of send_message_with_retry removes a cache entry or lowers it, whatever
\* the store answers, and every cached version stays within 0..U32_MAX: at U32_MAX the
\* entry stays at U32_MAX
C34_CacheNeverDecreases ==
    [][\A m \in DOMAIN slot_versions : \A s \in DOMAIN slot_versions[m] :
          /\ m \in DOMAIN slot_versions'
          /\ s \in DOMAIN slot_versions'[m]
          /\ slot_versions'[m][s] >= slot_versions[m][s]
          /\ slot_versions'[m][s] <= U32_MAX]_vars

\* C34 witness: the chunk of version U32_MAX was put twice, each answered as already
\* existing, and the cache entry is U32_MAX
C34_Witness ==
    /\ prev_put.answer = "conflict" /\ prev_put.version = U32_MAX
    /\ last_put.answer = "conflict" /\ last_put.version = U32_MAX
    /\ Cached(slot_versions, msg_id, signer_slot_id) = U32_MAX

\* C35: a step of send_message_with_retry for a message of kind msg_id leaves the signer
\* slot id, every cache entry and every stored chunk other than those of (msg_id, own
\* slot) as they were, every chunk put is for the signer's own slot, and a
\* get_transactions call leaves the whole cache as it was
C35_SendChangesOwnEntryOnly ==
    [][/\ signer_slot_id' = signer_slot_id
       /\ \A m \in FrameKinds : \A s \in SlotIds :
             (m # msg_id' \/ s # signer_slot_id) =>
                /\ Cached(slot_versions', m, s) = Cached(slot_versions, m, s)
                /\ store'[m][s] = store[m][s]
       /\ (last_put'.answer # "unanswered") => last_put'.slot_id = signer_slot_id
       /\ (rdvars' # rdvars) => (slot_versions' = slot_versions /\ store' = store)]_vars

\* C35 witness: a message of kind 0 was accepted, transactions were read, and a call for
\* kind 1 had a chunk rejected: the two kinds have their own cache entries and chunks
C35_Witness ==
    /\ msg_id = 1
    /\ Cached(slot_versions, 0, signer_slot_id) = 2
    /\ Cached(slot_versions, 1, signer_slot_id) = 0
    /\ store[0][signer_slot_id] = 1
    /\ store[1][signer_slot_id] = 0
    /\ n_reads > 0

\* C36: in the information returned by get_registered_signers_info every signer id of
\* signer_ids has an entry in signer_public_keys, in public_keys.signers, in
\* signer_key_ids and in coordinator_key_ids
C36_MapsDescribeSameSigners ==
    InfoReturned =>
        LET info == client_result.value[1]
        IN  \A address \in DOMAIN info.signer_ids :
                /\ info.signer_ids[address] \in DOMAIN info.signer_public_keys
                /\ info.signer_ids[address] \in DOMAIN info.public_keys.signers
                /\ info.signer_ids[address] \in DOMAIN info.signer_key_ids
                /\ info.signer_ids[address] \in DOMAIN info.coordinator_key_ids

\* C37: get_current_reward_cycle returns a value or an error for every pox response: it
\* does not abort, whatever the two lengths add up to, and the value is 0 when the
\* current height is below the first height
C37_RewardCycleNeverAborts ==
    (client_call.op = "get_current_reward_cycle") =>
        /\ client_result.kind \in {"Ok", "Err"}
        /\ (/\ client_call.pox_data.kind = "Ok"
            /\ client_call.pox_data.value.current_burnchain_block_height
                  < client_call.pox_data.value.first_burnchain_block_height) =>
              client_result = Ok(0)

----------------------------------------------------------------------------
\* Properties of special_or and special_and

\* whether the evaluation of (or ...), of (and ...), ends at that argument: it fails, or
\* it is no boolean, or it is the boolean that decides
Decides(op, arg) ==
    \/ arg.kind # "Ok"
    \/ arg.value.type # "Bool"
    \/ arg.value.bool = (op = "or")

\* the positions of the arguments at which the evaluation would end
DecidingPositions(op, args) == { i \in 1..Len(args) : Decides(op, args[i]) }

\* C38: or and and with no argument return InvalidArguments; otherwise the arguments
\* are evaluated from the left up to the first one that fails, is no boolean or decides
\* (true for or, false for and) and no further: the call returns that error, a TypeError,
\* or the deciding boolean; when no argument decides, all are evaluated and or returns
\* false, and returns true
C38_ShortCircuit ==
    (vm_call.op # "none") =>
        LET args == vm_call.args
            deciding == DecidingPositions(vm_call.op, args)
            first == CHOOSE i \in deciding : \A j \in deciding : i <= j
        IN  IF args = <<>>
              THEN /\ vm_result.result.kind = "Err"
                   /\ vm_result.result.error = "InvalidArguments"
                   /\ vm_result.evaluated = 0
            ELSE IF deciding = {}
              THEN /\ vm_result.result = Ok(BoolValue(vm_call.op = "and"))
                   /\ vm_result.evaluated = Len(args)
            ELSE /\ vm_result.evaluated = first
                 /\ IF args[first].kind # "Ok" THEN vm_result.result = args[first]
                    ELSE IF args[first].value.type # "Bool"
                      THEN /\ vm_result.result.kind = "Err"
                           /\ vm_result.result.error = "TypeError"
                    ELSE vm_result.result = Ok(BoolValue(vm_call.op = "or"))

\* C38 witness: (or false true <failing> <int>) returned true after two evaluations
C38_Witness ==
    /\ vm_call.op = "or"
    /\ Len(vm_call.args) = 3
    /\ vm_call.args[1] = Ok(BoolValue(FALSE))
    /\ vm_call.args[2] = Ok(BoolValue(TRUE))
    /\ vm_call.args[3].kind = "Err"
    /\ vm_result.result.kind = "Ok"
    /\ vm_result.evaluated = 2

----------------------------------------------------------------------------
\* Properties of PegInOp

\* the transaction has a first output and it was recognised
FirstRecipientRecognised(tx) == Len(tx.recipients) >= 1 /\ tx.recipients[1] # None

\* the bytes of the contract name field of a payload: those from byte 21 on, before the
\* first zero byte and before byte 61
ContractNameField(data) ==
    LET last == CHOOSE n \in 21..61 :
                    /\ n <= Len(data)
                    /\ \A i \in 22..n : data[i] # 0
                    /\ (n = 61 \/ n = Len(data) \/ data[n + 1] = 0)
    IN  SubSeq(data, 22, last)

\* the payload is one parse_data refuses: too short, or with a contract name that is no
\* UTF-8 or no contract name
PayloadRefused(data) ==
    \/ Len(data) < 21
    \/ /\ ContractNameField(data) # <<>>
       /\ \/ ~is_utf8(ContractNameField(data), 1)
          \/ ContractNameTryFrom(ContractNameField(data)).kind # "Ok"

\* C39: from_tx looks at the opcode, then at the first recipient, then at the payload: it
\* returns InvalidInput for another opcode, InvalidInput when the first output is missing
\* or not recognised, ParseError for a payload below 21 bytes or with an invalid contract
\* name, and an operation with the amount of the first recipient otherwise; a failure
\* gives no operation; check fails with AmountMustBePositive exactly when the amount is 0
C39_PegInValidationOrder ==
    (peg_tx # NoTx) =>
        /\ IF peg_tx.opcode # "PegIn" THEN peg_result = Err("InvalidInput", "")
           ELSE IF ~FirstRecipientRecognised(peg_tx) THEN peg_result = Err("InvalidInput", "")
           ELSE IF PayloadRefused(peg_tx.data) THEN peg_result = Err("ParseError", "")
           ELSE /\ peg_result.kind = "Ok"
                /\ peg_result.value.amount = peg_tx.recipients[1][1].amount
                /\ peg_result.value.recipient.name = ContractNameField(peg_tx.data)
        /\ (peg_result.kind # "Ok") => (peg_result.value = None /\ peg_check = NoResult)
        /\ (peg_check # NoResult) =>
              IF peg_result.value.amount = 0
                THEN peg_check = Err("AmountMustBePositive", "")
                ELSE peg_check.kind = "Ok"

\* C39 witness: a PegIn transaction without a recognised first output and with a payload
\* of 20 bytes was refused as InvalidInput
C39_Witness ==
    /\ peg_tx.opcode = "PegIn"
    /\ peg_tx.recipients = <<None>>
    /\ Len(peg_tx.data) = 20
    /\ peg_result = Err("InvalidInput", "")

====
